---- MODULE Spec2Model ----
(***************************************************************************)
(* Model of InformationExtractor (src/extractor.py): the entity            *)
(* aggregator extract_entities, the four document extractors and the       *)
(* dispatcher extract_by_document_type.                                    *)
(*                                                                         *)
(* Representation.  A Python str is a sequence of atoms; an atom is a      *)
(* word of the text (written as a TLA+ string) or the atom WS, which       *)
(* stands for leading or trailing white space.  Inside a line the words    *)
(* are separated by one blank that is not written.  A text is the          *)
(* sequence of its lines, i.e. text.split('\n'), so the empty text is      *)
(* << <<>> >>.  A Python list is a sequence, a dict is a function whose    *)
(* DOMAIN is its key set, None is NULL.  A regular expression is modelled  *)
(* by what it matches on the words of the vocabulary below.                *)
(*                                                                         *)
(* The records of the extractors hold the fields that read the entity bag  *)
(* (and, for invoices, the line items and the currency).  The fields left   *)
(* out are computed                                                        *)
(* from the text alone by re.search / re.findall / substring tests, which  *)
(* give None or [] when nothing matches and cannot raise; no word of the   *)
(* vocabulary matches their patterns.                                      *)
(***************************************************************************)
EXTENDS Integers, Sequences, FiniteSets, TLC

\* ---------------------------------------------------------------- bounds
MaxLines == 2
MaxClock == 1
MaxRows == 3
MaxThreads == 2

NULL == "None"
WS == " "
\* the line end inside a str that runs over several lines
NL == "\n"

\* ------------------------------------------------------- string helpers
RECURSIVE LStrip(_)
LStrip(s) == IF s # <<>> /\ Head(s) = WS THEN LStrip(Tail(s)) ELSE s

RECURSIVE RStrip(_)
RStrip(s) == IF s # <<>> /\ s[Len(s)] = WS THEN RStrip(SubSeq(s, 1, Len(s) - 1)) ELSE s

\* str.strip()
Strip(s) == RStrip(LStrip(s))

RECURSIVE Concat(_)
Concat(ss) == IF ss = <<>> THEN <<>> ELSE Head(ss) \o Concat(Tail(ss))

RECURSIVE SumSeq(_)
SumSeq(ns) == IF ns = <<>> THEN 0 ELSE Head(ns) + SumSeq(Tail(ns))

Range(s) == {s[i] : i \in 1..Len(s)}

Reverse(s) == [i \in 1..Len(s) |-> s[Len(s) + 1 - i]]

Min(S) == CHOOSE x \in S : \A y \in S : x <= y

Max(S) == CHOOSE x \in S : \A y \in S : x >= y

RECURSIVE SetToSeq(_)
SetToSeq(S) == IF S = {} THEN <<>>
               ELSE LET x == CHOOSE y \in S : TRUE IN <<x>> \o SetToSeq(S \ {x})

\* list(set(xs)): the iteration order of a set of str is fixed by the hash
\* seed of the process, so it is one function of the set per process.
ListOfSet(S, seed) == IF seed = 0 THEN SetToSeq(S) ELSE Reverse(SetToSeq(S))

\* dict.get(key, default)
Get(d, k, default) == IF k \in DOMAIN d THEN d[k] ELSE default

\* ------------------------------------------------------------ the inputs
LinePool ==
  { <<>>,
    <<"Total:", "$123.45">>,
    <<"Total:", "$9.00">>,
    <<"Grand", "Total:", "$123.45">>,
    <<"Amount", "Due:", "$123.45">>,
    <<"Amount", "Due:", "$9.00">>,
    <<"Final", "Amount:", "$123.45">>,
    <<"Balance", "Due:", "$123.45">>,
    <<"Invoice", "A1", "a@b.com", "555-123-4567">> }

Texts == UNION { [1..n -> LinePool] : n \in 1..MaxLines }

\* the lines of the texts that carry 'Vendor:' labels
VendorLinePool ==
  { <<>>,
    <<"Vendor:", "Acme", "Corp">>,
    <<"Vendor:", "Acme", "Corp", WS>>,
    <<"Vendor:", "Acme", "Corp", "Ltd">>,
    <<"Our", "Vendor:", "Acme", "Corp">>,
    <<"VENDOR:", "Globex">>,
    <<"Vendor:">>,
    <<"Vendor:", WS>>,
    <<"Initech", "Solutions">> }

VendorTexts == UNION { [1..n -> VendorLinePool] : n \in 1..MaxLines }

\* the lines of an invoice's item table: strict rows (one of them padded,
\* one with a terminal keyword in its description), loose rows, a line with
\* one amount, a closing line and the empty line
ItemRowPool ==
  { <<"1", "Widget", "$10.00", "2", "$20.00">>,
    <<"2", "Gadget", "$5.00", "1", "$5.00">>,
    <<WS, "3", "Cable", "$3.00", "4", "$12.00", WS>>,
    <<"2", "Payment", "Module", "$5.00", "1", "$5.00">>,
    <<"Widget", "$10.00", "2", "$20.00">>,
    <<"Gadget", "$5.00", "$5.00">>,
    <<"Bolt", "$5.00", "$10.00", "2", "$20.00">>,
    <<"4", "Cable", "$3.00", "$12.00">>,
    <<"Total:", "$30.00">>,
    <<"Thank", "you">>,
    <<>> }

\* what stands before the table: nothing, a line of letters, a line that
\* begins like a row
ItemPreludes == { <<>>, << <<"Acme", "Corp">> >>, << <<"5", "Main", "Street">> >> }

\* the header line, when there is one
ItemHeaders ==
  { <<>>,
    << <<"Item", "Description", "Price", "Qty", "Total">> >>,
    << <<"Description", "Price", "Quantity", "Amount">> >> }

ItemBodies == UNION { [1..n -> ItemRowPool] : n \in 0..MaxRows }

\* ''.split('\n') is [''], so no text has zero lines
ItemTexts ==
  { IF x = <<>> THEN << <<>> >> ELSE x :
      x \in { p \o h \o b : p \in ItemPreludes, h \in ItemHeaders, b \in ItemBodies } }

\* the lines of the invoices whose fields are labelled in the text: the
\* labelled fields, the contact line, a header and a row of the item table,
\* the empty line
LabelLinePool ==
  { <<"Invoice", "Number:", "A1">>,
    <<"PO", "Number:", "A1">>,
    <<"Subtotal:", "$9.00">>,
    <<"Tax:", "$9.00">>,
    <<"Due", "Date:", "05/01/2024">>,
    <<"a@b.com", "555-123-4567">>,
    <<"Description", "Price", "Quantity", "Amount">>,
    <<"Widget", "$9.00", "$123.45">>,
    <<>> }

LabelTexts == UNION { [1..n -> LabelLinePool] : n \in 1..MaxLines }

\* `lines[:5]`: the lines the last tier of the vendor name scans
NameScanLines == 5

\* the lines of the texts whose vendor name comes from the later tiers: a
\* line with a corporate keyword, one padded, labelled lines, a line with
\* neither, the empty line
NameLinePool ==
  { <<"Initech", "Solutions">>,
    <<WS, "Acme", "Corporation", WS>>,
    <<"Vendor:", "Globex">>,
    <<"Vendor:", WS>>,
    <<"Hello">>,
    <<>> }

\* the lines that stand before them: none, or blank lines or lines of
\* words, as many as put the first line of the pool at the end of the
\* scanned lines or just behind them
NamePads ==
  { [i \in 1..k |-> l] : k \in {0, NameScanLines - 1, NameScanLines}, l \in { <<>>, <<"Notice">> } }

NameTexts ==
  { p \o b : p \in NamePads, b \in UNION { [1..n -> NameLinePool] : n \in 1..MaxLines } }

\* `lines[:15]`: the lines the first tier of the vendor address scans
AddressScanLines == 15

\* the lines of the texts that carry street addresses: a street address, one
\* behind a five-digit number, the same with words before and after it, an
\* address without a house number, a line that ends in a number, a line
\* that ends in an amount, the empty line
AddressLinePool ==
  { <<"12", "Main", "Street">>,
    <<"90210", "Main", "Street">>,
    <<"No", "90210", "Main", "Street", "Springfield">>,
    <<"Main", "Street", "Springfield", WS>>,
    <<"90210", "Main", "Street", "Springfield">>,
    <<"Page", "5">>,
    <<"Total:", "$9.00">>,
    <<>> }

\* the lines that stand before them: none, or as many as put the first line
\* of the pool at the end of the scanned lines or just behind them
AddressPads == {0, AddressScanLines - 1, AddressScanLines}

AddressTexts ==
  { [i \in 1..k |-> <<"Notice">>] \o b :
      k \in AddressPads, b \in UNION { [1..n -> AddressLinePool] : n \in 1..MaxLines } }

\* the arguments of the concurrent calls
ConcTexts == { << <<"Total:", "$9.00">> >>, << <<"Invoice", "A1", "a@b.com", "555-123-4567">> >> }

ConcDocTypes == {"invoice", "report"}

DocTypes == {"invoice", "contract", "resume", "legal", "legal_doc", "report", "unknown"}

\* What self.nlp(text) does on one call: it raises, or it returns doc.ents,
\* given here per label as the list of ent.text in document order.
NerOutputs ==
  { [fails |-> TRUE, PERSON |-> <<>>, ORG |-> <<>>, MONEY |-> <<>>, DATE |-> <<>>,
     GPE |-> <<>>, CARDINAL |-> <<>>],
    [fails |-> FALSE, PERSON |-> <<>>, ORG |-> <<>>, MONEY |-> <<>>, DATE |-> <<>>,
     GPE |-> <<>>, CARDINAL |-> <<>>],
    [fails |-> FALSE,
     PERSON |-> << <<"Acme", "Corp">>, <<"John", "Doe">> >>,
     ORG |-> << <<"Globex">>, <<"Acme", "Corp">>, <<WS, "Acme", "Corp">>, <<WS>>, <<"IBM">> >>,
     MONEY |-> << <<"$9.00">> >>,
     DATE |-> << <<"90210">>, <<"12">>, <<"May", "5">>, <<WS, "7", WS>>, <<"123456">>, <<WS>> >>,
     GPE |-> << <<"Paris">> >>,
     CARDINAL |-> << <<"12">> >>] }

\* for the vendor name: the recognizer raises, or returns no entity, or ORG
\* entities without a business word, or ORG entities one of which has one
NameNerOutputs ==
  { n \in NerOutputs : n.ORG = <<>> } \cup
  { [fails |-> FALSE, PERSON |-> <<>>, ORG |-> orgs, MONEY |-> <<>>, DATE |-> <<>>,
     GPE |-> <<>>, CARDINAL |-> <<>>] :
       orgs \in { << <<"Globex">>, <<"IBM">> >>,
                  << <<"Globex">>, <<"Princeton">> >>,
                  << <<"Globex">>, <<"Acme", "Corp", WS>> >> } }

\* for the concurrent calls: the recognizer raises, or returns entities of
\* every label
ConcNerOutputs == { n \in NerOutputs : n.fails \/ n.ORG # <<>> }

\* --------------------------------------------------------- text predicates
\* `not text`
IsEmptyText(t) == t = << <<>> >>

\* `not text.strip()`
IsBlankText(t) == \A i \in 1..Len(t) : Strip(t[i]) = <<>>

\* the words of the text in reading order; \s* and \s+ run across line ends
Words(t) == SelectSeq(Concat(t), LAMBDA a : a # WS)

\* len(text): characters of the words, one blank between the words of a line
\* and one '\n' between lines
LineLen(l) == SumSeq([i \in 1..Len(l) |-> Len(l[i])]) + (IF Len(l) > 0 THEN Len(l) - 1 ELSE 0)

TextLen(t) == SumSeq([i \in 1..Len(t) |-> LineLen(t[i])]) + (Len(t) - 1)

\* ------------------------------------------------------- pattern library
\* self.patterns, in insertion order (the order the aggregator applies them)
PatternNames ==
  << "email", "phone", "phone_international", "currency_usd", "currency_euro",
     "amount_decimal", "amount_simple", "date_slash", "date_dash", "date_iso",
     "date_text", "invoice_number", "po_number", "order_number", "tax_rate",
     "tax_amount", "zip_code", "address", "website", "social_media",
     "ein_tax_id", "ssn", "payment_terms", "discount_terms" >>

\* re.findall(self.patterns[p], word, re.IGNORECASE) for the patterns that
\* match inside one word; every other (pattern, word) pair has no match
PatternMatches(p, a) ==
  CASE p = "email" /\ a = "a@b.com" -> << <<"a@b.com">> >>
    [] p = "phone" /\ a = "555-123-4567" -> << <<"555-123-4567">> >>
    [] p = "currency_usd" /\ a = "$123.45" -> << <<"$123.45">> >>
    [] p = "currency_usd" /\ a = "$9.00" -> << <<"$9.00">> >>
    [] p = "amount_decimal" /\ a = "$123.45" -> << <<"123.45">> >>
    [] p = "amount_decimal" /\ a = "$9.00" -> << <<"9.00">> >>
    [] p = "amount_simple" /\ a = "$123.45" -> << <<"123.45">> >>
    [] p = "amount_simple" /\ a = "$9.00" -> << <<"9.00">> >>
    [] p = "amount_simple" /\ a = "555-123-4567" -> << <<"555">>, <<"123">>, <<"4567">> >>
    [] p = "amount_simple" /\ a \in {"12", "90210", "5"} -> << <<a>> >>
    [] p = "amount_simple" /\ a = "05/01/2024" -> << <<"05">>, <<"01">>, <<"2024">> >>
    [] p = "date_slash" /\ a = "05/01/2024" -> << <<a>> >>
    [] OTHER -> <<>>

\* the longest prefix of the word in [A-Za-z0-9\-/]+ (the capture group of
\* the invoice_number pattern under re.IGNORECASE), NULL when there is none
AlnumPrefix(a) ==
  CASE a = "A1" -> <<"A1">>
    [] a = "Total:" -> <<"Total">>
    [] a = "Due:" -> <<"Due">>
    [] a = "Amount:" -> <<"Amount">>
    [] a \in {"Grand", "Amount", "Final", "Balance", "Invoice", "555-123-4567"} -> <<a>>
    [] a \in {"PO", "Due", "Description", "Price", "Quantity", "Widget", "05/01/2024"} -> <<a>>
    [] a = "Number:" -> <<"Number">>
    [] a = "Subtotal:" -> <<"Subtotal">>
    [] a = "Tax:" -> <<"Tax">>
    [] a = "Date:" -> <<"Date">>
    [] a = "a@b.com" -> <<"a">>
    [] OTHER -> NULL

\* re.findall(self.patterns['invoice_number'], text, re.IGNORECASE) on the
\* words from position i on: 'Invoice' followed by a capturable word captures
\* it (and consumes it); otherwise the alternative 'Inv' matches and the
\* group captures the rest of the word, 'oice'
RECURSIVE InvoiceNumberFrom(_, _)
InvoiceNumberFrom(w, i) ==
  IF i > Len(w) THEN <<>>
  ELSE IF w[i] # "Invoice" THEN InvoiceNumberFrom(w, i + 1)
  ELSE IF i + 1 < Len(w) /\ w[i + 1] = "Number:" /\ AlnumPrefix(w[i + 2]) # NULL
       THEN <<AlnumPrefix(w[i + 2])>> \o InvoiceNumberFrom(w, i + 3)
  ELSE IF i < Len(w) /\ AlnumPrefix(w[i + 1]) # NULL
       THEN <<AlnumPrefix(w[i + 1])>> \o InvoiceNumberFrom(w, i + 2)
       ELSE << <<"oice">> >> \o InvoiceNumberFrom(w, i + 1)

\* the group [A-Z0-9\-]+ of the po_number and order_number patterns at the
\* start of a word: as AlnumPrefix, but a '/' ends it
DashAlnumPrefix(a) == IF a = "05/01/2024" THEN <<"05">> ELSE AlnumPrefix(a)

\* re.findall of the po_number or the order_number pattern, whose first word
\* is `first`: the word, an optional 'Number:', then the captured word; under
\* re.IGNORECASE 'PO' is also found inside 'Corporation', and the group takes
\* the rest of the word
RECURSIVE NumberAfter(_, _, _)
NumberAfter(first, w, i) ==
  IF i > Len(w) THEN <<>>
  ELSE IF first = "PO" /\ w[i] = "Corporation"
       THEN << <<"ration">> >> \o NumberAfter(first, w, i + 1)
  ELSE IF w[i] # first THEN NumberAfter(first, w, i + 1)
  ELSE IF i + 1 < Len(w) /\ w[i + 1] = "Number:" /\ DashAlnumPrefix(w[i + 2]) # NULL
       THEN <<DashAlnumPrefix(w[i + 2])>> \o NumberAfter(first, w, i + 3)
  ELSE IF i < Len(w) /\ DashAlnumPrefix(w[i + 1]) # NULL
       THEN <<DashAlnumPrefix(w[i + 1])>> \o NumberAfter(first, w, i + 2)
  ELSE NumberAfter(first, w, i + 1)

\* the words of the text in reading order with the line ends between the lines
Flat(t) == Concat([i \in 1..Len(t) |-> IF i < Len(t) THEN t[i] \o <<NL>> ELSE t[i]])

\* \s
IsSpace(a) == a \in {WS, NL}

\* every character of the word is in [A-Za-z0-9\s,.-]
InAddressClass(a) ==
  a \notin {"Total:", "Due:", "Amount:", "Vendor:", "VENDOR:", "a@b.com", "$123.45", "$9.00"}

\* the digits at the end of the word, where \d+\s+ can begin to match
DigitTail(a) ==
  CASE a \in {"12", "90210", "5"} -> a
    [] a = "$9.00" -> "00"
    [] a = "$123.45" -> "45"
    [] a = "A1" -> "1"
    [] a = "555-123-4567" -> "4567"
    [] OTHER -> NULL

\* what stands behind the last character outside the class in a word that
\* has one, NULL when nothing does
ClassTail(a) ==
  CASE a = "$9.00" -> "9.00"
    [] a = "$123.45" -> "123.45"
    [] a = "a@b.com" -> "b.com"
    [] OTHER -> NULL

\* what stands before the first character outside the class in a word that
\* has one, NULL when nothing does
ClassPrefix(a) ==
  CASE a = "Total:" -> "Total"
    [] a = "Due:" -> "Due"
    [] a = "Amount:" -> "Amount"
    [] a = "Vendor:" -> "Vendor"
    [] a = "VENDOR:" -> "VENDOR"
    [] a = "a@b.com" -> "a"
    [] OTHER -> NULL

\* (?:Street|St|Avenue|Ave|Road|Rd|...)\b as a whole word
IsStreetSuffix(a) == a \in {"Street", "St", "Avenue", "Ave", "Road", "Rd"}

\* re.findall(r'\d+\s+[A-Za-z0-9\s,.-]+(?:Street|...)\b', f, re.IGNORECASE) from
\* word `from` on: the leftmost number that has, in the run of class
\* characters behind it, a suffix with something for [..]+ to take before
\* it (a word, or a second white space character); the match runs to the
\* last such suffix (greedy), over line ends too
RECURSIVE AddressFrom(_, _)
AddressFrom(f, from) ==
  LET runEnd(k) ==
        Max({ m \in k..Len(f) : \A j \in (k + 1)..m : IsSpace(f[j]) \/ InAddressClass(f[j]) })
      filled(k, m) ==
        \/ \E j \in (k + 1)..(m - 1) : f[j] # NL
        \/ Cardinality({ j \in (k + 1)..(m - 1) : f[j] = NL }) >= 2
      ends(k) == { m \in (k + 1)..runEnd(k) : IsStreetSuffix(f[m]) /\ filled(k, m) }
      starts == { k \in from..Len(f) : DigitTail(f[k]) # NULL /\ ends(k) # {} }
  IN IF starts = {} THEN <<>>
     ELSE LET k == Min(starts)
              e == Max(ends(k))
          IN << <<DigitTail(f[k])>> \o SubSeq(f, k + 1, e) >> \o AddressFrom(f, e + 1)

\* re.findall(pattern, text, re.IGNORECASE)
FindAll(p, t) ==
  LET w == Words(t)
  IN IF p = "invoice_number" THEN InvoiceNumberFrom(w, 1)
     ELSE IF p = "address" THEN AddressFrom(Flat(t), 1)
     ELSE IF p = "po_number" THEN NumberAfter("PO", w, 1)
     ELSE IF p = "order_number" THEN NumberAfter("Order", w, 1)
     ELSE Concat([i \in 1..Len(w) |-> PatternMatches(p, w[i])])

\* the bucket a pattern's matches are routed to (the if/elif chain)
Bucket(p) ==
  CASE p = "email" -> "emails"
    [] p \in {"phone", "phone_international"} -> "phones"
    [] p \in {"currency_usd", "currency_euro", "amount_decimal", "amount_simple"} -> "currencies"
    [] p \in {"date_slash", "date_dash", "date_iso", "date_text"} -> "dates_structured"
    [] p = "address" -> "addresses"
    [] p = "website" -> "websites"
    [] p \in {"ein_tax_id", "ssn"} -> "business_ids"
    [] p \in {"invoice_number", "po_number", "order_number"} -> "invoice_details"
    [] OTHER -> NULL

\* the matches extended into one list bucket, pattern after pattern
Routed(b, t) ==
  Concat([i \in 1..Len(PatternNames) |->
            IF Bucket(PatternNames[i]) = b THEN FindAll(PatternNames[i], t) ELSE <<>>])

\* entities['invoice_details'][pattern_name] = matches, only `if matches`
InvoiceDetails(t) ==
  [p \in {q \in {"invoice_number", "po_number", "order_number"} : FindAll(q, t) # <<>>}
     |-> FindAll(p, t)]

\* number of digits of a str that consists of digits only, else 0
DigitCount(d) ==
  IF Len(d) # 1 THEN 0
  ELSE CASE d[1] \in {"1", "5", "7"} -> 1
         [] d[1] \in {"12", "00", "45"} -> 2
         [] d[1] \in {"555", "123", "456"} -> 3
         [] d[1] = "4567" -> 4
         [] d[1] = "90210" -> 5
         [] d[1] = "123456" -> 6
         [] OTHER -> 0

\* mutant: only the check for 3 to 5 digits is made
CleanDatesZipOnly(ds) == SelectSeq(ds, LAMBDA d : ~(DigitCount(d) \in 3..5))

\* the DATE cleanup: drop re.fullmatch(r'\d{3,5}') and re.fullmatch(r'\d{1,2}')
CleanDates(ds) ==
  SelectSeq(ds, LAMBDA d : ~(DigitCount(d) \in 3..5) /\ ~(DigitCount(d) \in 1..2))

\* list(set([ent.text.strip() for ent in doc.ents if ent.label_ == label]))
NerList(spans, seed) == ListOfSet({Strip(spans[i]) : i \in 1..Len(spans)}, seed)

\* mutant: the filter `if item and item.strip()` is missing
DedupCleanKeepsEmpty(xs, seed) == ListOfSet({Strip(xs[i]) : i \in 1..Len(xs)}, seed)

\* list(set([item.strip() for item in xs if item and item.strip()]))
DedupClean(xs, seed) ==
  ListOfSet({Strip(xs[i]) : i \in {j \in 1..Len(xs) : xs[j] # <<>> /\ Strip(xs[j]) # <<>>}}, seed)

ListKeys ==
  << "PERSON", "ORG", "MONEY", "DATE", "GPE", "CARDINAL", "emails", "phones",
     "currencies", "dates_structured", "addresses", "websites", "business_ids" >>

\* sum(len(v) if isinstance(v, list) else len(v) if isinstance(v, dict) else 0 ...)
TotalEntitiesFound(e) ==
  SumSeq([i \in 1..Len(ListKeys) |-> Len(e[ListKeys[i]])])
  + Cardinality(DOMAIN e.invoice_details)

\* the try block of extract_entities, the recognizer having returned n
AggregateEntities(t, n, seed, now) ==
  LET e == [ PERSON |-> DedupClean(NerList(n.PERSON, seed), seed),
             ORG |-> DedupClean(NerList(n.ORG, seed), seed),
             MONEY |-> DedupClean(NerList(n.MONEY, seed), seed),
             DATE |-> DedupClean(CleanDates(NerList(n.DATE, seed)), seed),
             GPE |-> DedupClean(NerList(n.GPE, seed), seed),
             CARDINAL |-> DedupClean(NerList(n.CARDINAL, seed), seed),
             emails |-> DedupClean(Routed("emails", t), seed),
             phones |-> DedupClean(Routed("phones", t), seed),
             currencies |-> DedupClean(Routed("currencies", t), seed),
             dates_structured |-> DedupClean(Routed("dates_structured", t), seed),
             addresses |-> DedupClean(Routed("addresses", t), seed),
             websites |-> DedupClean(Routed("websites", t), seed),
             business_ids |-> DedupClean(Routed("business_ids", t), seed),
             invoice_details |-> InvoiceDetails(t) ]
  IN [ PERSON |-> e.PERSON, ORG |-> e.ORG, MONEY |-> e.MONEY, DATE |-> e.DATE,
       GPE |-> e.GPE, CARDINAL |-> e.CARDINAL, emails |-> e.emails,
       phones |-> e.phones, currencies |-> e.currencies,
       dates_structured |-> e.dates_structured, addresses |-> e.addresses,
       websites |-> e.websites, business_ids |-> e.business_ids,
       invoice_details |-> e.invoice_details,
       extraction_metadata |->
         [ total_entities_found |-> TotalEntitiesFound(e),
           text_length |-> TextLen(t),
           processing_timestamp |-> now ] ]

\* the except branch: {'error': f"Entity extraction failed: {str(e)}"}
ErrorBag == [error |-> <<"Entity extraction failed:", "recognizer error">>]

\* the early return of extract_entities: {}
EmptyBag == <<>>

\* what a call leaves behind when it raises instead of returning
Raise(exc) == [raised |-> exc]

Raised(v) == "raised" \in DOMAIN v

\* mutant: the guard tests `not text` only
SkipsRecognizerNoStrip(t) == IsEmptyText(t)

\* `if not text or not text.strip(): return {}` comes before self.nlp(text)
SkipsRecognizer(t) == IsEmptyText(t) \/ IsBlankText(t)

\* mutant: no except branch, the recognizer's exception leaves the function
ExtractEntitiesPropagates(t, n, seed, now) ==
  IF SkipsRecognizer(t) THEN EmptyBag
  ELSE IF n.fails THEN Raise("Exception")
  ELSE AggregateEntities(t, n, seed, now)

\* extract_entities(text) as a function of the text, of what the recognizer
\* does, of the hash seed and of the clock
ExtractEntitiesResult(t, n, seed, now) ==
  IF SkipsRecognizer(t) THEN EmptyBag
  ELSE IF n.fails THEN ErrorBag
  ELSE AggregateEntities(t, n, seed, now)

\* ---------------------------------------------------------- field helpers
\* the group captured by \$?\s*(\d+(?:,\d{3})*(?:\.\d{2})?) at the start of
\* a word, NULL when the word does not start that way
NumCapture(a) ==
  CASE a = "$123.45" -> <<"123.45">>
    [] a = "$9.00" -> <<"9.00">>
    [] a = "555-123-4567" -> <<"555">>
    [] a \in {"12", "90210", "5"} -> <<a>>
    [] a = "05/01/2024" -> <<"05">>
    [] OTHER -> NULL

\* total_patterns: the words each labelled pattern asks for before the number,
\* in the order the patterns are tried
TotalLabels ==
  << <<"Total:">>, <<"Grand", "Total:">>, <<"Amount", "Due:">>,
     <<"Final", "Amount:">>, <<"Balance", "Due:">> >>

\* the positions at which one labelled pattern matches the words w
LabelMatches(w, lab) ==
  { i \in 1..Len(w) :
      /\ i + Len(lab) <= Len(w)
      /\ SubSeq(w, i, i + Len(lab) - 1) = lab
      /\ NumCapture(w[i + Len(lab)]) # NULL }

\* mutant: the rightmost match instead of the leftmost
SearchLabelLast(w, lab) ==
  IF LabelMatches(w, lab) = {} THEN NULL
  ELSE NumCapture(w[Max(LabelMatches(w, lab)) + Len(lab)])

\* re.search(pattern, text).group(1): the leftmost match, or NULL
SearchLabel(w, lab) ==
  IF LabelMatches(w, lab) = {} THEN NULL
  ELSE NumCapture(w[Min(LabelMatches(w, lab)) + Len(lab)])

\* `for pattern in total_patterns`: the first pattern, from the k-th on, that
\* matches somewhere decides
RECURSIVE FirstLabelledTotal(_, _)
FirstLabelledTotal(w, k) ==
  IF k > Len(TotalLabels) THEN NULL
  ELSE IF SearchLabel(w, TotalLabels[k]) # NULL THEN SearchLabel(w, TotalLabels[k])
  ELSE FirstLabelledTotal(w, k + 1)

\* re.findall(r'\d{1,3}(?:,\d{3})*(?:\.\d{2})?', atom)
NumericAtoms(a) ==
  CASE a \in {"$123.45", "123.45"} -> <<"123.45">>
    [] a \in {"$9.00", "9.00"} -> <<"9.00">>
    [] a \in {"555", "123", "12", "5", "05", "01"} -> <<a>>
    [] a = "2024" -> <<"202", "4">>
    [] a = "4567" -> <<"456", "7">>
    [] a = "90210" -> <<"902", "10">>
    [] a = "555-123-4567" -> <<"555", "123", "456", "7">>
    [] OTHER -> <<>>

\* re.findall(r'\d{1,3}(?:,\d{3})*(?:\.\d{2})?', str(amount))
NumericParts(amount) == Concat([i \in 1..Len(amount) |-> NumericAtoms(amount[i])])

\* float(num.replace(',', '')), in hundredths
NumValue(num) ==
  CASE num = "123.45" -> 12345
    [] num = "9.00" -> 900
    [] num = "555" -> 55500
    [] num = "123" -> 12300
    [] num = "456" -> 45600
    [] num = "902" -> 90200
    [] num = "12" -> 1200
    [] num = "10" -> 1000
    [] num = "7" -> 700
    [] num \in {"5", "05"} -> 500
    [] num = "4" -> 400
    [] num = "01" -> 100
    [] num = "202" -> 20200
    [] OTHER -> 0

\* the offsets inside a word of the text at which num occurs as a substring
SubstrOffsets(a, num) ==
  CASE a = "$123.45" /\ num \in {"123.45", "123", "12"} -> {1}
    [] a = "$9.00" /\ num = "9.00" -> {1}
    [] a = "555-123-4567" /\ num = "555" -> {0}
    [] a = "555-123-4567" /\ num \in {"123", "12"} -> {4}
    [] a = "555-123-4567" /\ num = "456" -> {8}
    [] a = "555-123-4567" /\ num = "7" -> {11}
    [] a = "555-123-4567" /\ num = "5" -> {0, 1, 2, 9}
    [] a = "555-123-4567" /\ num = "4" -> {8}
    [] a = "$123.45" /\ num = "5" -> {6}
    [] a = "$123.45" /\ num = "4" -> {5}
    [] a = "12" /\ num = "12" -> {0}
    [] a = "5" /\ num = "5" -> {0}
    [] a = "90210" /\ num = "902" -> {0}
    [] a = "90210" /\ num = "10" -> {3}
    [] a = "05/01/2024" /\ num = "05" -> {0}
    [] a = "05/01/2024" /\ num = "5" -> {1}
    [] a = "05/01/2024" /\ num = "01" -> {3}
    [] a = "05/01/2024" /\ num = "202" -> {6}
    [] a = "05/01/2024" /\ num = "4" -> {9}
    [] OTHER -> {}

\* the .{0,100} of total_context
ProximityWindow == 100

\* the offset in the text of every word of Words(t)
WordOffsets(t) ==
  Concat([i \in 1..Len(t) |->
    [j \in 1..Len(t[i]) |->
       SumSeq([k \in 1..(i - 1) |-> LineLen(t[k]) + 1])
       + SumSeq([k \in 1..(j - 1) |-> Len(t[i][k]) + 1])]])

\* the offsets at which a match of (?:Total|Amount\s+Due|Grand\s+Total) ends
KeywordEnds(t) ==
  LET w == Words(t) off == WordOffsets(t)
  IN { off[i] + 5 : i \in {j \in 1..Len(w) : w[j] = "Total:"} }
     \cup { off[i] + 8 : i \in {j \in 1..Len(w) : w[j] = "Subtotal:"} }
     \cup { off[i + 1] + 3 :
              i \in {j \in 1..(Len(w) - 1) : w[j] = "Amount" /\ w[j + 1] \in {"Due:", "Due"}} }

\* the offsets at which num occurs in the text
NumStarts(t, num) ==
  LET w == Words(t) off == WordOffsets(t)
  IN UNION { { off[i] + o : o \in SubstrOffsets(w[i], num) } : i \in 1..Len(w) }

\* re.search(total_context, text, re.IGNORECASE | re.DOTALL)
NearTotal(t, num) ==
  \E e \in KeywordEnds(t) : \E s \in NumStarts(t, num) : s >= e /\ s - e <= ProximityWindow

\* the first element of nums with the largest value (`>` keeps the earlier one,
\* as max() does), NULL for the empty list
RECURSIVE FirstMax(_, _)
FirstMax(nums, best) ==
  IF nums = <<>> THEN best
  ELSE IF best = NULL \/ NumValue(Head(nums)) > NumValue(best[1])
       THEN FirstMax(Tail(nums), <<Head(nums)>>)
       ELSE FirstMax(Tail(nums), best)

_get_total_amount(t, e) ==
  LET labelled == FirstLabelledTotal(Words(t), 1)
      all_amounts == Get(e, "MONEY", <<>>) \o Get(e, "currencies", <<>>)
      numeric_amounts == Concat([i \in 1..Len(all_amounts) |-> NumericParts(all_amounts[i])])
      near == SelectSeq(numeric_amounts, LAMBDA num : NearTotal(t, num))
  IN IF labelled # NULL THEN labelled
     ELSE IF FirstMax(near, NULL) # NULL THEN FirstMax(near, NULL)
     ELSE FirstMax(numeric_amounts, NULL)

\* any(kw in org.lower() for kw in ['brand', 'company', 'inc', 'corp', 'ltd', 'llc'])
HasBusinessSuffix(s) ==
  \E i \in 1..Len(s) :
     s[i] \in {"Corp", "Inc", "Ltd", "LLC", "Company", "Brand", "Inc.", "Corporation", "Princeton"}

\* any(word in line.lower() for word in ['corporation', 'inc.', 'solutions', 'technologies'])
HasCorporateKeyword(l) == \E i \in 1..Len(l) : l[i] \in {"Corporation", "Inc.", "Solutions", "Technologies"}

\* 'Vendor:' under re.IGNORECASE
IsVendorLabel(a) == a \in {"Vendor:", "VENDOR:"}

\* mutant: the last 'Vendor:' label of the text instead of the first
VendorLabelledLast(t) ==
  LET hits == { i \in 1..Len(t) : \E j \in 1..Len(t[i]) : IsVendorLabel(t[i][j]) }
  IN IF hits = {} THEN NULL
     ELSE LET i == Max(hits)
              j == Max({k \in 1..Len(t[i]) : IsVendorLabel(t[i][k])})
              after == SubSeq(t[i], j + 1, Len(t[i]))
              later == { k \in (i + 1)..Len(t) : Strip(t[k]) # <<>> }
              blank == \/ \E k \in 1..Len(after) : after[k] = WS
                       \/ \E k \in (i + 1)..Len(t) : t[k] # <<>>
          IN IF Strip(after) # <<>> THEN Strip(after)
             ELSE IF later # {} THEN Strip(t[Min(later)])
             ELSE IF blank THEN <<>>
             ELSE NULL

\* re.search(r'Vendor:\s*(.+)', text, re.IGNORECASE), then group(1).strip():
\* the first label; \s* runs over blanks and line ends up to the next word and
\* (.+) takes the rest of that word's line.  With no word after the label (.+)
\* takes blanks that stand after it on a line, the result is the empty str;
\* with nothing but line ends after it there is no match
VendorLabelled(t) ==
  LET hits == { i \in 1..Len(t) : \E j \in 1..Len(t[i]) : IsVendorLabel(t[i][j]) }
  IN IF hits = {} THEN NULL
     ELSE LET i == Min(hits)
              j == Min({k \in 1..Len(t[i]) : IsVendorLabel(t[i][k])})
              after == SubSeq(t[i], j + 1, Len(t[i]))
              later == { k \in (i + 1)..Len(t) : Strip(t[k]) # <<>> }
              blank == \/ \E k \in 1..Len(after) : after[k] = WS
                       \/ \E k \in (i + 1)..Len(t) : t[k] # <<>>
          IN IF Strip(after) # <<>> THEN Strip(after)
             ELSE IF later # {} THEN Strip(t[Min(later)])
             ELSE IF blank THEN <<>>
             ELSE NULL

\* text.strip().split('\n'): the lines without the leading and trailing blank ones
RECURSIVE StripLines(_)
StripLines(t) ==
  IF t = <<>> THEN << <<>> >>
  ELSE IF Strip(Head(t)) = <<>> THEN StripLines(Tail(t))
  ELSE IF Strip(t[Len(t)]) = <<>> THEN StripLines(SubSeq(t, 1, Len(t) - 1))
  ELSE t

_get_vendor_name(t, e) ==
  LET orgs == Get(e, "ORG", <<>>)
      suffixed == SelectSeq(orgs, HasBusinessSuffix)
      lines == SubSeq(StripLines(t), 1, IF Len(StripLines(t)) < NameScanLines
                                        THEN Len(StripLines(t)) ELSE NameScanLines)
      corporate == SelectSeq(lines, HasCorporateKeyword)
  IN IF VendorLabelled(t) # NULL THEN VendorLabelled(t)
     ELSE IF suffixed # <<>> THEN Strip(suffixed[1])
     ELSE IF orgs # <<>> THEN orgs[1]
     ELSE IF corporate # <<>> THEN Strip(corporate[1])
     ELSE NULL

\* any(word in p.lower() for word in ['brand', 'company', 'corp', 'inc', 'ltd'])
LooksLikeVendor(s) == \E i \in 1..Len(s) : s[i] \in {"Corp", "Inc", "Ltd", "Company"}

\* the labels of the four customer patterns; a label is followed by the name
\* on its own line
CustomerLabels == {"Customer:", "Client:"}

CustomerLabelled(t) ==
  LET hits == { i \in 1..Len(t) :
                  \E j \in 1..(Len(t[i]) - 1) : t[i][j] \in CustomerLabels }
  IN IF hits = {} THEN NULL
     ELSE LET i == Min(hits)
              j == Min({k \in 1..(Len(t[i]) - 1) : t[i][k] \in CustomerLabels})
          IN SubSeq(t[i], j + 1, Len(t[i]))

_get_customer_name(t, e) ==
  LET filtered == SelectSeq(Get(e, "PERSON", <<>>), LAMBDA p : ~LooksLikeVendor(p))
  IN IF CustomerLabelled(t) # NULL THEN CustomerLabelled(t)
     ELSE IF filtered # <<>> THEN filtered[1]
     ELSE NULL

\* re.search(r'\$', text): every other currency branch needs a symbol the
\* vocabulary does not have and the default is 'USD' again
_detect_currency(t) == <<"USD">>

\* re.search(r'invoice', text, re.IGNORECASE)
MentionsInvoice(t) == \E i \in 1..Len(Words(t)) : Words(t)[i] = "Invoice"

\* re.search(r'(?:total|amount|due)', text, re.IGNORECASE)
MentionsTotal(t) ==
  \E i \in 1..Len(Words(t)) :
     Words(t)[i] \in {"Total:", "Amount", "Amount:", "Due:", "Due", "Subtotal:"}

\* mutant: the test of the DATE and dates_structured buckets is missing
_calculate_invoice_confidence_no_dates(t, e) ==
  LET score == (IF MentionsInvoice(t) THEN 3 ELSE 0)
             + (IF Get(e, "ORG", <<>>) # <<>> THEN 2 ELSE 0)
             + (IF Get(e, "currencies", <<>>) # <<>> \/ Get(e, "MONEY", <<>>) # <<>> THEN 2 ELSE 0)
             + (IF Get(e, "emails", <<>>) # <<>> THEN 1 ELSE 0)
             + (IF MentionsTotal(t) THEN 1 ELSE 0)
  IN IF score < 10 THEN score ELSE 10

\* min(score, 1.0), in tenths: the float sum of the code differs from the
\* decimal sum by at most 2^-53 and is 0.9999999999999999 when all six hold
_calculate_invoice_confidence(t, e) ==
  LET score == (IF MentionsInvoice(t) THEN 3 ELSE 0)
             + (IF Get(e, "ORG", <<>>) # <<>> THEN 2 ELSE 0)
             + (IF Get(e, "currencies", <<>>) # <<>> \/ Get(e, "MONEY", <<>>) # <<>> THEN 2 ELSE 0)
             + (IF Get(e, "DATE", <<>>) # <<>> \/ Get(e, "dates_structured", <<>>) # <<>> THEN 1 ELSE 0)
             + (IF Get(e, "emails", <<>>) # <<>> THEN 1 ELSE 0)
             + (IF MentionsTotal(t) THEN 1 ELSE 0)
  IN IF score < 10 THEN score ELSE 10

\* not any(c in line for c in [':', '|', '@'])
IsNameLine(l) ==
  \A i \in 1..Len(l) : l[i] \notin {"Total:", "Due:", "Amount:", "a@b.com", "Vendor:", "VENDOR:", "Customer:", "Client:"}

_extract_candidate_name(t) ==
  LET names == SelectSeq(StripLines(t), LAMBDA l : Strip(l) # <<>> /\ IsNameLine(l))
  IN IF names # <<>> THEN Strip(names[1]) ELSE NULL

\* org_clean.isupper() and len(org_clean) < 10
IsShortUpper(s) == Len(s) = 1 /\ s[1] \in {"IBM"}

\* the ORG filter of _extract_companies (no ORG of the inputs holds a
\* blacklisted keyword or ends in ':'), then list(set(companies)); the texts
\* have no 'Experience:' section
_extract_companies(t, e, seed) ==
  LET orgs == Get(e, "ORG", <<>>)
      kept == SelectSeq(orgs, LAMBDA o : LineLen(Strip(o)) >= 3 /\ ~IsShortUpper(Strip(o)))
  IN ListOfSet({Strip(kept[i]) : i \in 1..Len(kept)}, seed)

\* ------------------------------------------------- line-item table parser
\* the word is \d+
IsDigits(a) == a \in {"1", "2", "3", "4", "5"}

\* re.findall(r'\$(\d+\.?\d*)', word): the amount of a word '$<number>',
\* NULL for every other word
DollarAmount(a) ==
  CASE a = "$10.00" -> "10.00"
    [] a = "$20.00" -> "20.00"
    [] a = "$5.00" -> "5.00"
    [] a = "$3.00" -> "3.00"
    [] a = "$12.00" -> "12.00"
    [] a = "$30.00" -> "30.00"
    [] a = "$123.45" -> "123.45"
    [] a = "$9.00" -> "9.00"
    [] OTHER -> NULL

\* the group of \$?(\d+\.?\d*) when it spans the whole word, else NULL
AmountCapture(a) ==
  IF DollarAmount(a) # NULL THEN DollarAmount(a)
  ELSE IF IsDigits(a) THEN a
  ELSE NULL

\* re.search(r'[A-Za-z]', word)
HasLetter(a) == a # WS /\ a # "555-123-4567" /\ ~IsDigits(a) /\ DollarAmount(a) = NULL

\* the words of l from position i on hold, in this order, one word out of
\* each set of sets (the '.*' between the words of a header pattern)
RECURSIVE HasInOrder(_, _, _)
HasInOrder(l, i, sets) ==
  IF sets = <<>> THEN TRUE
  ELSE IF i > Len(l) THEN FALSE
  ELSE IF l[i] \in Head(sets) THEN HasInOrder(l, i + 1, Tail(sets))
  ELSE HasInOrder(l, i + 1, sets)

\* the two header shapes (re.search, re.IGNORECASE):
\* Item\s+Description.*Price.*Qty.*Total | Description.*Price.*Quantity.*Amount
IsHeader(l) ==
  \/ \E i \in 1..(Len(l) - 1) :
        /\ l[i] = "Item" /\ l[i + 1] = "Description"
        /\ HasInOrder(l, i + 2, << {"Price"}, {"Qty"}, {"Total", "Total:"} >>)
  \/ HasInOrder(l, 1, << {"Description"}, {"Price"}, {"Quantity"}, {"Amount", "Amount:"} >>)

\* re.match(r'\s*\d+\s+[A-Za-z]', line)
IsBareRow(l) ==
  LET w == LStrip(l) IN Len(w) >= 2 /\ IsDigits(w[1]) /\ HasLetter(w[2])

\* re.search(r'Sub\s*Total|Thank\s*you|Terms|Payment', line, re.IGNORECASE)
IsTerminal(l) ==
  \E i \in 1..Len(l) :
     \/ l[i] \in {"Payment", "Subtotal:"}
     \/ i < Len(l) /\ l[i] = "Sub" /\ l[i + 1] \in {"Total", "Total:"}
     \/ i < Len(l) /\ l[i] = "Thank" /\ l[i + 1] = "you"

\* mutant: with no header and no bare row the table starts at the first line
TableStartDefaultsToTop(t) ==
  LET headers == { i \in 1..Len(t) : IsHeader(t[i]) }
      bare == { i \in 1..Len(t) : IsBareRow(t[i]) }
  IN IF headers # {} THEN Min(headers) + 1
     ELSE IF bare # {} THEN Min(bare)
     ELSE 1

\* table_start, as an index from 1 into the lines: the line after the first
\* header, else the first bare row, else 0 (the -1 of the code)
TableStart(t) ==
  LET headers == { i \in 1..Len(t) : IsHeader(t[i]) }
      bare == { i \in 1..Len(t) : IsBareRow(t[i]) }
  IN IF headers # {} THEN Min(headers) + 1
     ELSE IF bare # {} THEN Min(bare)
     ELSE 0

\* table_end: the first line from table_start on with a terminal keyword,
\* else len(lines); the rows are the lines start .. end - 1
TableEnd(t, start) ==
  LET terminal == { i \in start..Len(t) : IsTerminal(t[i]) }
  IN IF terminal # {} THEN Min(terminal) ELSE Len(t) + 1

\* mutant: the groups of price and quantity are taken the wrong way round
StrictItemGroupsSwapped(w) ==
  LET n == Len(w)
  IN IF /\ n >= 5 /\ IsDigits(w[1]) /\ AmountCapture(w[n - 2]) # NULL
        /\ IsDigits(w[n - 1]) /\ AmountCapture(w[n]) # NULL
     THEN << [ item_number |-> <<w[1]>>,
               description |-> SubSeq(w, 2, n - 3),
               unit_price |-> <<w[n - 1]>>,
               quantity |-> <<AmountCapture(w[n - 2])>>,
               amount |-> <<AmountCapture(w[n])>> ] >>
     ELSE <<>>

\* re.match(r'^(\d+)\s+(.+?)\s+\$?(\d+\.?\d*)\s+(\d+)\s+\$?(\d+\.?\d*)$', line)
\* on the stripped line w: the item it gives, as a list of none or one
StrictItem(w) ==
  LET n == Len(w)
  IN IF /\ n >= 5 /\ IsDigits(w[1]) /\ AmountCapture(w[n - 2]) # NULL
        /\ IsDigits(w[n - 1]) /\ AmountCapture(w[n]) # NULL
     THEN << [ item_number |-> <<w[1]>>,
               description |-> SubSeq(w, 2, n - 3),
               unit_price |-> <<AmountCapture(w[n - 2])>>,
               quantity |-> <<w[n - 1]>>,
               amount |-> <<AmountCapture(w[n])>> ] >>
     ELSE <<>>

\* mutant: a row without a number gets the count of the items parsed so far
LooseItemNumberedFromZero(w, count) ==
  LET amounts == SelectSeq([i \in 1..Len(w) |-> DollarAmount(w[i])], LAMBDA a : a # NULL)
      dollars == { k \in 1..Len(w) : DollarAmount(w[k]) # NULL }
      numbered == IsDigits(w[1]) /\ \E k \in dollars : k >= 3
      first == IF numbered THEN Min({k \in dollars : k >= 3}) ELSE Min({k \in dollars : k >= 2})
      qty == { k \in dollars : k + 2 <= Len(w) /\ IsDigits(w[k + 1]) /\ (k + 2) \in dollars }
  IN IF Len(amounts) >= 2 /\ (\E i \in 1..Len(w) : HasLetter(w[i]))
     THEN << [ item_number |-> IF numbered THEN <<w[1]>> ELSE <<ToString(count)>>,
               description |-> SubSeq(w, IF numbered THEN 2 ELSE 1, first - 1),
               unit_price |-> <<amounts[1]>>,
               quantity |-> IF qty # {} THEN <<w[Min(qty) + 1]>> ELSE <<"1">>,
               amount |-> <<amounts[Len(amounts)]>> ] >>
     ELSE <<>>

\* the else branch on the stripped, non-empty line w, `count` items parsed so
\* far: the item it gives, as a list of none or one.  amounts are the '$'
\* words; desc_match takes an optional leading number and the words up to the
\* first '$' word behind a blank; qty_match is the leftmost '$' word, number,
\* '$' word in a row
LooseItem(w, count) ==
  LET amounts == SelectSeq([i \in 1..Len(w) |-> DollarAmount(w[i])], LAMBDA a : a # NULL)
      dollars == { k \in 1..Len(w) : DollarAmount(w[k]) # NULL }
      numbered == IsDigits(w[1]) /\ \E k \in dollars : k >= 3
      first == IF numbered THEN Min({k \in dollars : k >= 3}) ELSE Min({k \in dollars : k >= 2})
      qty == { k \in dollars : k + 2 <= Len(w) /\ IsDigits(w[k + 1]) /\ (k + 2) \in dollars }
  IN IF Len(amounts) >= 2 /\ (\E i \in 1..Len(w) : HasLetter(w[i]))
     THEN << [ item_number |-> IF numbered THEN <<w[1]>> ELSE <<ToString(count + 1)>>,
               description |-> SubSeq(w, IF numbered THEN 2 ELSE 1, first - 1),
               unit_price |-> <<amounts[1]>>,
               quantity |-> IF qty # {} THEN <<w[Min(qty) + 1]>> ELSE <<"1">>,
               amount |-> <<amounts[Len(amounts)]>> ] >>
     ELSE <<>>

\* one pass of the row loop on lines[i], `count` items parsed so far: the
\* items the line adds (none or one)
ParseLine(l, count) ==
  LET w == Strip(l)
  IN IF w = <<>> THEN <<>>
     ELSE IF StrictItem(w) # <<>> THEN StrictItem(w)
     ELSE LooseItem(w, count)

\* mutant: the row loop runs to the last line of the text
RECURSIVE ParseRowsPastEnd(_, _, _, _)
ParseRowsPastEnd(t, i, end, items) ==
  IF i > Len(t) THEN items
  ELSE ParseRowsPastEnd(t, i + 1, end, items \o ParseLine(t[i], Len(items)))

\* `for i in range(table_start, table_end)`
RECURSIVE ParseRows(_, _, _, _)
ParseRows(t, i, end, items) ==
  IF i >= end THEN items
  ELSE ParseRows(t, i + 1, end, items \o ParseLine(t[i], Len(items)))

_extract_line_items(t) ==
  IF TableStart(t) = 0 THEN <<>>
  ELSE ParseRows(t, TableStart(t), TableEnd(t, TableStart(t)), <<>>)

\* the dates (\d{1,2}[/-]\d{1,2}[/-]\d{2,4}) at the start of a word
SlashDate(a) == IF a = "05/01/2024" THEN <<a>> ELSE NULL

\* group(1) of a pattern at the start of the word a, the group named by the
\* pattern it stands in; NULL when the group does not match there.
\*   tax_amount: (\d{1,3}(?:[,\.]\d{3})*(?:\.\d{2})?) behind [£$€¥]?\s*
\*   tax_rate:   (\d+(?:\.\d+)?%)
GroupAt(group, a) ==
  CASE group = "alnum" -> AlnumPrefix(a)
    [] group = "number" -> NumCapture(a)
    [] group = "tax_amount" -> IF a = "90210" THEN <<"902">> ELSE NumCapture(a)
    [] group = "tax_rate" -> IF a = "8%" THEN <<"8%">> ELSE NULL
    [] group = "date" -> SlashDate(a)

\* re.search of a pattern made of the words of a label and a group at the
\* start of the next word: the positions at which it matches the words w
LabelledAt(w, lab, group) ==
  { i \in 1..Len(w) :
      /\ i + Len(lab) <= Len(w)
      /\ SubSeq(w, i, i + Len(lab) - 1) = lab
      /\ GroupAt(group, w[i + Len(lab)]) # NULL }

\* `for pattern in patterns`: the group of the leftmost match of the first
\* label, from the k-th on, that matches somewhere; NULL when none does
RECURSIVE FirstLabelled(_, _, _, _)
FirstLabelled(w, labels, group, k) ==
  IF k > Len(labels) THEN NULL
  ELSE IF LabelledAt(w, labels[k], group) # {}
       THEN GroupAt(group, w[Min(LabelledAt(w, labels[k], group)) + Len(labels[k])])
  ELSE FirstLabelled(w, labels, group, k + 1)

\* the leftmost match of one pattern whose label is an alternation
AnyLabelled(w, labels, group) ==
  LET at == { <<i, k>> \in (1..Len(w)) \X (1..Len(labels)) : i \in LabelledAt(w, labels[k], group) }
  IN IF at = {} THEN NULL
     ELSE LET i == Min({ c[1] : c \in at })
              k == Min({ c[2] : c \in { d \in at : d[1] = i } })
          IN GroupAt(group, w[i + Len(labels[k])])

\* the labels of the four patterns of _get_invoice_number, in order
InvoiceNumberLabels ==
  << <<"Invoice", "Number:">>, <<"Invoice", "No.:">>, <<"Invoice", "#:">>, <<"Inv.", "No.:">> >>

_get_invoice_number(t) == FirstLabelled(Words(t), InvoiceNumberLabels, "alnum", 1)

\* the labels of the three patterns of _get_po_number, in order
PoNumberLabels ==
  << <<"PO", "Number:">>, <<"P.O.", "No.:">>, <<"Purchase", "Order:">> >>

_get_po_number(t) == FirstLabelled(Words(t), PoNumberLabels, "alnum", 1)

\* (?:Subtotal|Sub-total|Sub\s+Total):\s*\$?\s*(\d+(?:,\d{3})*(?:\.\d{2})?)
_get_subtotal(t) ==
  AnyLabelled(Words(t), << <<"Subtotal:">>, <<"Sub-total:">>, <<"Sub", "Total:">> >>, "number")

\* the labels (?:Tax|VAT|GST|Sales\s+Tax) with the [:\-]? behind them
TaxLabels == << <<"Tax:">>, <<"VAT:">>, <<"GST:">>, <<"Sales", "Tax:">> >>

\* self._extract_single_pattern(text, self.patterns[name]): group(1) of the
\* leftmost match; no text has a word of the payment_terms pattern ('Net',
\* 'within', 'Payment due in') or of the discount_terms pattern ('%')
_extract_single_pattern(t, name) ==
  CASE name = "order_number" ->
         IF NumberAfter("Order", Words(t), 1) = <<>> THEN NULL
         ELSE NumberAfter("Order", Words(t), 1)[1]
    [] name = "tax_amount" -> AnyLabelled(Words(t), TaxLabels, "tax_amount")
    [] name = "tax_rate" -> AnyLabelled(Words(t), TaxLabels, "tax_rate")
    [] name \in {"payment_terms", "discount_terms"} -> NULL

\* the labels of the date patterns that take such a date, in order; 'Date'
\* is found at the end of any word, the [:\-]? takes the colon
InvoiceDateLabels == << <<"Invoice", "Date:">>, <<"Date:">>, <<"Issued:">> >>

\* the labelled patterns, then the first standalone date of lines[:10]
_get_invoice_date(t) ==
  LET labelled == FirstLabelled(Words(t), InvoiceDateLabels, "date", 1)
      lines == SubSeq(t, 1, IF Len(t) < 10 THEN Len(t) ELSE 10)
      dated == { i \in 1..Len(lines) : \E j \in 1..Len(lines[i]) : SlashDate(lines[i][j]) # NULL }
  IN IF labelled # NULL THEN labelled
     ELSE IF dated # {}
          THEN LET l == lines[Min(dated)]
               IN SlashDate(l[Min({ j \in 1..Len(l) : SlashDate(l[j]) # NULL })])
     ELSE NULL

\* re.search(r'(?:Due\s+Date|Payment\s+Due):\s*([^\n]+)', text,
\* re.IGNORECASE), then group(1).strip(): what follows the first label on
\* its line or, when nothing does, the next line that is not blank
_get_due_date(t) ==
  LET at(i) == { j \in 2..Len(t[i]) :
                   \/ t[i][j - 1] = "Due" /\ t[i][j] = "Date:"
                   \/ t[i][j - 1] = "Payment" /\ t[i][j] = "Due:" }
      hits == { i \in 1..Len(t) : at(i) # {} }
  IN IF hits = {} THEN NULL
     ELSE LET i == Min(hits)
              after == SubSeq(t[i], Min(at(i)) + 1, Len(t[i]))
              later == { k \in (i + 1)..Len(t) : Strip(t[k]) # <<>> }
              blank == \/ \E k \in 1..Len(after) : after[k] = WS
                       \/ \E k \in (i + 1)..Len(t) : t[k] # <<>>
          IN IF Strip(after) # <<>> THEN Strip(after)
             ELSE IF later # {} THEN Strip(t[Min(later)])
             ELSE IF blank THEN <<>>
             ELSE NULL

\* the number of digits the str begins with
LeadingDigits(s) ==
  IF s = <<>> THEN 0
  ELSE CASE s[1] = "9.00" -> 1
         [] s[1] \in {"123.45", "555-123-4567"} -> 3
         [] OTHER -> DigitCount(<<s[1]>>)

\* re.match(r'^\d{4,6}', address)
StartsWithLongNumber(s) == LeadingDigits(s) >= 4

\* re.search of the first address pattern in one line: the first match
AddressSearch(l) ==
  IF AddressFrom(l, 1) = <<>> THEN <<>> ELSE << AddressFrom(l, 1)[1] >>

\* re.search(r'[A-Za-z0-9\s,.-]+(?:Street|...)\s+[A-Za-z0-9\s,.-]*', l,
\* re.IGNORECASE): the first run of class characters that holds a suffix
\* with white space behind it and something before it; the match is the
\* whole run, with the class characters of the words that bound it
AddressTrailSearch(l) ==
  LET n == Len(l)
      inRun(j) == IsSpace(l[j]) \/ InAddressClass(l[j])
      runStart(m) == Min({ b \in 1..m : \A j \in b..m : inRun(j) })
      runEnd(m) == Max({ e \in m..n : \A j \in m..e : inRun(j) })
      head(m) == IF runStart(m) > 1 /\ ClassTail(l[runStart(m) - 1]) # NULL
                 THEN <<ClassTail(l[runStart(m) - 1])>> ELSE <<>>
      tail(m) == IF runEnd(m) < n /\ ClassPrefix(l[runEnd(m) + 1]) # NULL
                 THEN <<ClassPrefix(l[runEnd(m) + 1])>> ELSE <<>>
      hits == { m \in 1..(n - 1) :
                  IsStreetSuffix(l[m]) /\ (runStart(m) < m \/ head(m) # <<>>) }
  IN IF hits = {} THEN <<>>
     ELSE LET m == Min(hits)
          IN << head(m) \o SubSeq(l, runStart(m), runEnd(m)) \o tail(m) >>

\* the two loops over lines[:15] and the patterns: the first match that
\* does not begin with a long number, stripped; NULL when the loops end
RECURSIVE ScanAddressLines(_, _)
ScanAddressLines(ls, i) ==
  IF i > Len(ls) THEN NULL
  ELSE LET first == AddressSearch(ls[i])
           second == AddressTrailSearch(ls[i])
       IN IF first # <<>> /\ ~StartsWithLongNumber(Strip(first[1])) THEN Strip(first[1])
          ELSE IF second # <<>> /\ ~StartsWithLongNumber(Strip(second[1]))
               THEN Strip(second[1])
          ELSE ScanAddressLines(ls, i + 1)

\* mutant: every line of the text is scanned
_get_vendor_address_all_lines(t, e) ==
  LET kept == SelectSeq(Get(e, "addresses", <<>>), LAMBDA a : ~StartsWithLongNumber(a))
  IN IF ScanAddressLines(t, 1) # NULL THEN ScanAddressLines(t, 1)
     ELSE IF kept # <<>> THEN kept[1]
     ELSE NULL

_get_vendor_address(t, e) ==
  LET lines == SubSeq(t, 1, IF Len(t) < AddressScanLines THEN Len(t) ELSE AddressScanLines)
      kept == SelectSeq(Get(e, "addresses", <<>>), LAMBDA a : ~StartsWithLongNumber(a))
  IN IF ScanAddressLines(lines, 1) # NULL THEN ScanAddressLines(lines, 1)
     ELSE IF kept # <<>> THEN kept[1]
     ELSE NULL

\* ------------------------------------------------------------ extractors
\* xs[0]: IndexError on the empty list
First(xs) == IF Len(xs) = 0 THEN Raise("IndexError") ELSE [value |-> xs[1]]

\* entities.get(key, [None])[0] if entities.get(key) else None
FirstOrNone(e, k) == IF Get(e, k, <<>>) # <<>> THEN Get(e, k, <<NULL>>)[1] ELSE NULL

\* the fields of the invoice record that read the bag, the line items and
\* the currency
extract_invoice_data(t, e, seed) ==
  [ vendor_name |-> _get_vendor_name(t, e),
    customer_name |-> _get_customer_name(t, e),
    invoice_number |-> _get_invoice_number(t),
    po_number |-> _get_po_number(t),
    order_number |-> _extract_single_pattern(t, "order_number"),
    total_amount |-> _get_total_amount(t, e),
    subtotal |-> _get_subtotal(t),
    tax_amount |-> _extract_single_pattern(t, "tax_amount"),
    tax_rate |-> _extract_single_pattern(t, "tax_rate"),
    invoice_date |-> _get_invoice_date(t),
    due_date |-> _get_due_date(t),
    vendor_email |-> FirstOrNone(e, "emails"),
    vendor_phone |-> FirstOrNone(e, "phones"),
    vendor_address |-> _get_vendor_address(t, e),
    payment_terms |-> _extract_single_pattern(t, "payment_terms"),
    discount_terms |-> _extract_single_pattern(t, "discount_terms"),
    line_items |-> _extract_line_items(t),
    currency_detected |-> _detect_currency(t),
    confidence_score |-> _calculate_invoice_confidence(t, e) ]

extract_contract_data(t, e, seed) ==
  [ parties |-> Get(e, "ORG", <<>>) \o Get(e, "PERSON", <<>>),
    dates |-> Get(e, "DATE", <<>>),
    contract_value |-> _get_total_amount(t, e) ]

\* mutant: entities['emails'][0], a KeyError when the bag has no such bucket
extract_resume_data_subscript(t, e, seed) ==
  IF "emails" \notin DOMAIN e THEN Raise("KeyError")
  ELSE IF Len(e.emails) = 0 \/ Len(Get(e, "phones", <<NULL>>)) = 0 THEN Raise("IndexError")
  ELSE [ candidate_name |-> _extract_candidate_name(t),
         email |-> e.emails[1],
         phone |-> Get(e, "phones", <<NULL>>)[1],
         previous_companies |-> _extract_companies(t, e, seed),
         locations |-> Get(e, "GPE", <<>>) ]

\* the dict display is evaluated top down: the first item that raises ends it
extract_resume_data(t, e, seed) ==
  LET email == First(Get(e, "emails", <<NULL>>))
      phone == First(Get(e, "phones", <<NULL>>))
  IN IF Raised(email) THEN email
     ELSE IF Raised(phone) THEN phone
     ELSE [ candidate_name |-> _extract_candidate_name(t),
            email |-> email.value,
            phone |-> phone.value,
            previous_companies |-> _extract_companies(t, e, seed),
            locations |-> Get(e, "GPE", <<>>) ]

\* mutant: the record carries the bag's extraction_metadata along
extract_legal_data_with_metadata(t, e, seed) ==
  [ parties_involved |-> Get(e, "PERSON", <<>>) \o Get(e, "ORG", <<>>),
    legal_dates |-> Get(e, "DATE", <<>>),
    monetary_amounts |-> Get(e, "MONEY", <<>>),
    metadata |-> Get(e, "extraction_metadata", NULL) ]

extract_legal_data(t, e, seed) ==
  [ parties_involved |-> Get(e, "PERSON", <<>>) \o Get(e, "ORG", <<>>),
    legal_dates |-> Get(e, "DATE", <<>>),
    monetary_amounts |-> Get(e, "MONEY", <<>>) ]

\* mutant: a misspelt key
document_extractors_misspelt ==
  [ invoice |-> "extract_invoice_data",
    contracts |-> "extract_contract_data",
    resume |-> "extract_resume_data",
    legal_doc |-> "extract_legal_data" ]

\* self.document_extractors
document_extractors ==
  [ invoice |-> "extract_invoice_data",
    contract |-> "extract_contract_data",
    resume |-> "extract_resume_data",
    legal_doc |-> "extract_legal_data" ]

\* the body of an extractor after its call of extract_entities
RunExtractor(f, t, e, seed) ==
  CASE f = "extract_invoice_data" -> extract_invoice_data(t, e, seed)
    [] f = "extract_contract_data" -> extract_contract_data(t, e, seed)
    [] f = "extract_resume_data" -> extract_resume_data(t, e, seed)
    [] f = "extract_legal_data" -> extract_legal_data(t, e, seed)

\* mutant: every extractor's helpers call the recognizer again
HelperRecognizerCallsAgain(f) == 1

\* how often the field helpers of an extractor call self.nlp: they are handed
\* the bag and never call it
HelperRecognizerCalls(f) == 0

\* mutant: the fallback wraps the bag into a record of its own
FallbackResultWrapped(bag) == [document_type |-> "unknown", entities |-> bag]

\* `return self.extract_entities(text)` of the fallback branch
FallbackResult(bag) == bag

\* ------------------------------------------------------------- the state
VARIABLES
  pc,          \* where the current extract_by_document_type call stands
  text,        \* its text argument
  docType,     \* its document_type argument
  ner,         \* what the recognizer does on this text
  hashSeed,    \* the hash seed of the process
  clock,       \* datetime.now()
  extractor,   \* the function the dispatcher selected
  entities,    \* the bag extract_entities returned
  result,      \* what the call returned, or the exception it raised
  nlpCalls,    \* calls of self.nlp during the current call
  helpersRun,  \* whether the field helpers of the extractor have run
  warned,      \* whether the unknown-type warning was logged
  secondResult, \* what the repetition of the call returned or raised
  calls,       \* per thread: the frame of its extract_by_document_type call
  shared       \* the attributes of the one InformationExtractor the threads share

vars == << pc, text, docType, ner, hashSeed, clock, extractor, entities, result,
           nlpCalls, helpersRun, warned, secondResult, calls, shared >>

NoResult == [none |-> TRUE]

\* the threads that call into the shared extractor
Threads == 1..MaxThreads

\* the frame of a call that has not begun: its arguments and locals
IdleFrame ==
  [ pc |-> "idle", text |-> << <<>> >>, docType |-> "unknown",
    ner |-> CHOOSE n \in NerOutputs : n.fails /\ n.ORG = <<>>,
    extractor |-> "none", entities |-> NoResult, stamp |-> 0, result |-> NoResult ]

\* what __init__ stores in the instance
SelfAtInit == [ patterns |-> PatternNames, document_extractors |-> document_extractors ]

Init ==
  /\ pc = "idle"
  /\ text = << <<>> >>
  /\ docType = "unknown"
  /\ ner \in {n \in NerOutputs : n.fails}
  /\ hashSeed \in {0, 1}
  /\ clock = 0
  /\ extractor = "none"
  /\ entities = NoResult
  /\ result = NoResult
  /\ nlpCalls = 0
  /\ helpersRun = FALSE
  /\ warned = FALSE
  /\ secondResult = NoResult
  /\ calls = [i \in Threads |-> IdleFrame]
  /\ shared = SelfAtInit

\* a caller invokes extract_by_document_type(text, document_type)
Call ==
  /\ pc = "idle"
  /\ pc' = "dispatch"
  /\ text' \in Texts
  /\ docType' \in DocTypes
  /\ ner' \in NerOutputs
  /\ UNCHANGED << hashSeed, clock, extractor, entities, result, nlpCalls,
                  helpersRun, warned, secondResult >>
  /\ UNCHANGED << calls, shared >>

\* `if document_type in self.document_extractors`: the extractor is entered
DispatchKnown ==
  /\ pc = "dispatch"
  /\ docType \in DOMAIN document_extractors
  /\ extractor' = document_extractors[docType]
  /\ pc' = "entities"
  /\ UNCHANGED << text, docType, ner, hashSeed, clock, entities, result, nlpCalls,
                  helpersRun, warned, secondResult >>
  /\ UNCHANGED << calls, shared >>

\* the else branch: logger.warning, then extract_entities
DispatchUnknown ==
  /\ pc = "dispatch"
  /\ docType \notin DOMAIN document_extractors
  /\ warned' = TRUE
  /\ extractor' = "extract_entities"
  /\ pc' = "entities"
  /\ UNCHANGED << text, docType, ner, hashSeed, clock, entities, result, nlpCalls,
                  helpersRun, secondResult >>
  /\ UNCHANGED << calls, shared >>

\* extract_entities(text), called by the extractor or by the fallback branch;
\* an exception leaving it would leave the whole call
ExtractEntities ==
  /\ pc = "entities"
  /\ LET bag == ExtractEntitiesResult(text, ner, hashSeed, clock)
     IN /\ entities' = bag
        /\ nlpCalls' = IF SkipsRecognizer(text) THEN nlpCalls ELSE nlpCalls + 1
        /\ IF Raised(bag) THEN pc' = "done" /\ result' = bag
           ELSE IF extractor = "extract_entities"
                THEN pc' = "done" /\ result' = FallbackResult(bag)
                ELSE pc' = "fields" /\ result' = result
  /\ UNCHANGED << text, docType, ner, hashSeed, clock, extractor, helpersRun,
                  warned, secondResult >>
  /\ UNCHANGED << calls, shared >>

\* the dict display of the extractor: every field helper runs on the bag
ExtractFields ==
  /\ pc = "fields"
  /\ result' = RunExtractor(extractor, text, entities, hashSeed)
  /\ helpersRun' = TRUE
  /\ nlpCalls' = nlpCalls + HelperRecognizerCalls(extractor)
  /\ pc' = "done"
  /\ UNCHANGED << text, docType, ner, hashSeed, clock, extractor, entities,
                  warned, secondResult >>
  /\ UNCHANGED << calls, shared >>

\* time passes after the call
Tick ==
  /\ pc = "done"
  /\ clock < MaxClock
  /\ clock' = clock + 1
  /\ UNCHANGED << pc, text, docType, ner, hashSeed, extractor, entities, result,
                  nlpCalls, helpersRun, warned, secondResult >>
  /\ UNCHANGED << calls, shared >>

\* extract_by_document_type(text, document_type) from entry to return, as a
\* function of its arguments, of what the recognizer does, of the hash seed
\* and of the clock
CallResult(t, d, n, seed, now) ==
  LET bag == ExtractEntitiesResult(t, n, seed, now)
  IN IF d \in DOMAIN document_extractors
     THEN IF Raised(bag) THEN bag ELSE RunExtractor(document_extractors[d], t, bag, seed)
     ELSE FallbackResult(bag)

\* the caller invokes the extractor again, in the same process, on the same
\* text, document type and recognizer output
Repeat ==
  /\ pc = "done"
  /\ secondResult' = CallResult(text, docType, ner, hashSeed, clock)
  /\ pc' = "repeated"
  /\ UNCHANGED << text, docType, ner, hashSeed, clock, extractor, entities, result,
                  nlpCalls, helpersRun, warned >>
  /\ UNCHANGED << calls, shared >>

\* a caller invokes extract_by_document_type(text, 'invoice') on a text with
\* 'Vendor:' labels
CallVendor ==
  /\ pc = "idle"
  /\ pc' = "dispatch"
  /\ text' \in VendorTexts
  /\ docType' = "invoice"
  /\ ner' \in NerOutputs
  /\ UNCHANGED << hashSeed, clock, extractor, entities, result, nlpCalls,
                  helpersRun, warned, secondResult >>
  /\ UNCHANGED << calls, shared >>

\* a caller invokes extract_by_document_type(text, 'invoice') on a text with
\* street addresses
CallAddress ==
  /\ pc = "idle"
  /\ pc' = "dispatch"
  /\ text' \in AddressTexts
  /\ docType' = "invoice"
  /\ ner' \in ConcNerOutputs
  /\ UNCHANGED << hashSeed, clock, extractor, entities, result, nlpCalls,
                  helpersRun, warned, secondResult >>
  /\ UNCHANGED << calls, shared >>

\* a caller invokes extract_by_document_type(text, 'invoice') on a text whose
\* vendor name the later tiers give
CallName ==
  /\ pc = "idle"
  /\ pc' = "dispatch"
  /\ text' \in NameTexts
  /\ docType' = "invoice"
  /\ ner' \in NameNerOutputs
  /\ UNCHANGED << hashSeed, clock, extractor, entities, result, nlpCalls,
                  helpersRun, warned, secondResult >>
  /\ UNCHANGED << calls, shared >>

\* a caller invokes extract_by_document_type(text, 'invoice') on a text with
\* labelled fields; the recognizer raises or finds no entity
CallLabelled ==
  /\ pc = "idle"
  /\ pc' = "dispatch"
  /\ text' \in LabelTexts
  /\ docType' = "invoice"
  /\ ner' \in { n \in NerOutputs : n.ORG = <<>> }
  /\ UNCHANGED << hashSeed, clock, extractor, entities, result, nlpCalls,
                  helpersRun, warned, secondResult >>
  /\ UNCHANGED << calls, shared >>

\* a caller invokes _extract_line_items(text)
CallLineItems ==
  /\ pc = "idle"
  /\ pc' = "items"
  /\ text' \in ItemTexts
  /\ UNCHANGED << docType, ner, hashSeed, clock, extractor, entities, result,
                  nlpCalls, helpersRun, warned, secondResult >>
  /\ UNCHANGED << calls, shared >>

\* _extract_line_items runs and returns
ExtractLineItems ==
  /\ pc = "items"
  /\ result' = [line_items |-> _extract_line_items(text)]
  /\ pc' = "done"
  /\ UNCHANGED << text, docType, ner, hashSeed, clock, extractor, entities,
                  nlpCalls, helpersRun, warned, secondResult >>
  /\ UNCHANGED << calls, shared >>

\* the sequential call is not running
seqVars == << pc, text, docType, ner, hashSeed, extractor, entities, result,
             nlpCalls, helpersRun, warned, secondResult >>

\* mutant: extract_entities pops the pattern it has applied
SelfAfterExtractEntitiesPopping(s) == [s EXCEPT !.patterns = Tail(s.patterns)]

\* the attributes of the instance after extract_entities, an extractor or the
\* dispatcher has run: no statement of theirs assigns to self or changes
\* self.patterns or self.document_extractors
SelfAfterExtractEntities(s) == s

\* thread i enters extract_by_document_type(text, document_type)
ThreadCall(i) ==
  /\ calls[i].pc = "idle"
  /\ \E t \in ConcTexts, d \in ConcDocTypes, n \in ConcNerOutputs :
        calls' = [calls EXCEPT ![i] = [@ EXCEPT !.pc = "dispatch", !.text = t,
                                                !.docType = d, !.ner = n]]
  /\ UNCHANGED << shared, clock >>
  /\ UNCHANGED seqVars

\* thread i looks its document type up in self.document_extractors
ThreadDispatch(i) ==
  /\ calls[i].pc = "dispatch"
  /\ calls' = [calls EXCEPT ![i] =
        [@ EXCEPT !.pc = "entities",
                  !.extractor = IF calls[i].docType \in DOMAIN shared.document_extractors
                                THEN shared.document_extractors[calls[i].docType]
                                ELSE "extract_entities"]]
  /\ UNCHANGED << shared, clock >>
  /\ UNCHANGED seqVars

\* thread i runs extract_entities: the bag is a local of the call
ThreadExtractEntities(i) ==
  /\ calls[i].pc = "entities"
  /\ LET c == calls[i]
         bag == ExtractEntitiesResult(c.text, c.ner, hashSeed, clock)
     IN calls' = [calls EXCEPT ![i] =
          IF c.extractor = "extract_entities"
          THEN [c EXCEPT !.pc = "done", !.entities = bag, !.stamp = clock,
                         !.result = FallbackResult(bag)]
          ELSE [c EXCEPT !.pc = "fields", !.entities = bag, !.stamp = clock]]
  /\ shared' = SelfAfterExtractEntities(shared)
  /\ UNCHANGED clock
  /\ UNCHANGED seqVars

\* thread i builds its record from its own bag
ThreadExtractFields(i) ==
  /\ calls[i].pc = "fields"
  /\ calls' = [calls EXCEPT ![i] =
        [@ EXCEPT !.pc = "done",
                  !.result = RunExtractor(calls[i].extractor, calls[i].text,
                                          calls[i].entities, hashSeed)]]
  /\ UNCHANGED << shared, clock >>
  /\ UNCHANGED seqVars

\* time passes between the steps of the threads
ThreadTick ==
  /\ clock < MaxClock
  /\ clock' = clock + 1
  /\ UNCHANGED << calls, shared >>
  /\ UNCHANGED seqVars

Next ==
  \/ Call
  \/ DispatchKnown
  \/ DispatchUnknown
  \/ ExtractEntities
  \/ ExtractFields
  \/ Tick
  \/ Repeat

Spec == Init /\ [][Next]_vars

\* invoice extraction on the texts with 'Vendor:' labels
NextVendor ==
  \/ CallVendor
  \/ DispatchKnown
  \/ ExtractEntities
  \/ ExtractFields

SpecVendor == Init /\ [][NextVendor]_vars

\* invoice extraction on the texts with street addresses
NextAddress ==
  \/ CallAddress
  \/ DispatchKnown
  \/ ExtractEntities
  \/ ExtractFields

SpecAddress == Init /\ [][NextAddress]_vars

\* invoice extraction on the texts for the tiers of the vendor name
NextName ==
  \/ CallName
  \/ DispatchKnown
  \/ ExtractEntities
  \/ ExtractFields

SpecName == Init /\ [][NextName]_vars

\* invoice extraction on the texts with labelled fields
NextLabelled ==
  \/ CallLabelled
  \/ DispatchKnown
  \/ ExtractEntities
  \/ ExtractFields

SpecLabelled == Init /\ [][NextLabelled]_vars

\* the line-item parser on its own
NextItems ==
  \/ CallLineItems
  \/ ExtractLineItems

InitItems == Init /\ hashSeed = 0

SpecItems == InitItems /\ [][NextItems]_vars

\* concurrent calls on one shared extractor, their steps interleaved
NextThreads ==
  \/ \E i \in Threads : ThreadCall(i)
  \/ \E i \in Threads : ThreadDispatch(i)
  \/ \E i \in Threads : ThreadExtractEntities(i)
  \/ \E i \in Threads : ThreadExtractFields(i)
  \/ ThreadTick

InitThreads == Init /\ hashSeed = 0

SpecThreads == InitThreads /\ [][NextThreads]_vars

\* ============================================================ properties
Extractors ==
  {"extract_invoice_data", "extract_contract_data", "extract_resume_data", "extract_legal_data"}

\* the keys of the record each extractor builds
RecordKeys(f) ==
  CASE f = "extract_invoice_data" ->
         {"vendor_name", "customer_name", "invoice_number", "po_number", "order_number",
          "total_amount", "subtotal", "tax_amount", "tax_rate", "invoice_date",
          "due_date", "vendor_email", "vendor_phone", "vendor_address", "payment_terms",
          "discount_terms", "line_items", "currency_detected", "confidence_score"}
    [] f = "extract_contract_data" -> {"parties", "dates", "contract_value"}
    [] f = "extract_resume_data" ->
         {"candidate_name", "email", "phone", "previous_companies", "locations"}
    [] f = "extract_legal_data" -> {"parties_involved", "legal_dates", "monetary_amounts"}

\* extract_entities has returned in the current call
EntitiesReturned == pc \in {"fields", "done", "repeated"}

RecognizerFailed == ~(IsEmptyText(text) \/ IsBlankText(text)) /\ ner.fails

RecognizerSucceeded == ~(IsEmptyText(text) \/ IsBlankText(text)) /\ ~ner.fails

\* C1: when the recognizer raises on a non-blank text, extract_entities
\* returns (nothing is raised to the caller) and the bag it returns has the
\* single key 'error', holding the description of the failure.
C1_RecognizerFailureGivesErrorBag ==
  (EntitiesReturned /\ RecognizerFailed) =>
     /\ ~Raised(entities)
     /\ DOMAIN entities = {"error"}
     /\ entities.error # <<>>
     /\ (pc = "done" /\ extractor = "extract_entities" => result = entities)

C1_Witness ==
  /\ pc = "done" /\ extractor = "extract_entities" /\ RecognizerFailed
  /\ nlpCalls = 1 /\ DOMAIN result = {"error"}

\* C2: an extractor that gets the error-only bag or the empty bag returns its
\* complete record and does not raise.
C2_ExtractorsTolerateMissingCategories ==
  (pc = "done" /\ extractor \in Extractors
     /\ (DOMAIN entities = {} \/ DOMAIN entities = {"error"})) =>
       DOMAIN result = RecordKeys(extractor)

C2_Witness ==
  /\ pc = "done" /\ extractor = "extract_resume_data" /\ DOMAIN entities = {"error"}
  /\ DOMAIN result = RecordKeys(extractor) /\ result.email = NULL /\ result.phone = NULL

\* C3: on a non-blank text on which the recognizer succeeds no extractor
\* raises, and the resume record's email and phone are null when the bag's
\* emails and phones buckets are empty.
C3_NonMatchNeverRaises ==
  (pc = "done" /\ extractor \in Extractors /\ RecognizerSucceeded) =>
     /\ ~Raised(result)
     /\ (extractor = "extract_resume_data" /\ entities.emails = <<>> => result.email = NULL)
     /\ (extractor = "extract_resume_data" /\ entities.phones = <<>> => result.phone = NULL)

\* C4: during one call the recognizer is invoked at most once, only by
\* extract_entities and before the field helpers have run; the field helpers
\* work on the bag that call produced and do not invoke the recognizer.
C4_RecognizerOncePerDocument ==
  [][ /\ nlpCalls' <= 1
      /\ (nlpCalls' > nlpCalls => pc = "entities" /\ ~helpersRun /\ ~helpersRun')
      /\ (pc = "fields" => entities' = entities /\ nlpCalls' = nlpCalls /\ helpersRun') ]_vars

C4_Witness ==
  /\ pc = "done" /\ extractor = "extract_invoice_data" /\ helpersRun /\ nlpCalls = 1
  /\ "extraction_metadata" \in DOMAIN entities

\* the bag without the time of the call
WithoutTimestamp(b) ==
  IF "extraction_metadata" \in DOMAIN b
  THEN [b EXCEPT !.extraction_metadata.processing_timestamp = 0]
  ELSE b

NoBlank(xs) == \A i \in 1..Len(xs) : xs[i] # <<>> /\ Strip(xs[i]) # <<>>

\* no two members equal after trimming
NoDuplicate(xs) == \A i, j \in 1..Len(xs) : i # j => Strip(xs[i]) # Strip(xs[j])

FullBag == EntitiesReturned /\ "extraction_metadata" \in DOMAIN entities

\* C6 as stated: in a returned bag no category has a blank member or two
\* members equal after trimming, the lists under invoice_details included.
C6_NoBlankNoDuplicateAnywhere ==
  FullBag =>
     /\ \A i \in 1..Len(ListKeys) :
          NoBlank(entities[ListKeys[i]]) /\ NoDuplicate(entities[ListKeys[i]])
     /\ \A p \in DOMAIN entities.invoice_details :
          NoBlank(entities.invoice_details[p]) /\ NoDuplicate(entities.invoice_details[p])

\* C6 as amended: every list-valued category has no blank member and no two
\* members equal after trimming; the lists under invoice_details are the raw
\* matches, they have no blank member (duplicates are kept).
C6_NoBlankNoDuplicateInLists ==
  FullBag =>
     /\ \A i \in 1..Len(ListKeys) :
          NoBlank(entities[ListKeys[i]]) /\ NoDuplicate(entities[ListKeys[i]])
     /\ \A p \in DOMAIN entities.invoice_details : NoBlank(entities.invoice_details[p])

C6_Witness ==
  /\ FullBag
  /\ Len(ner.ORG) = 5 /\ Len(entities.ORG) = 3
  /\ "invoice_number" \in DOMAIN entities.invoice_details
  /\ entities.invoice_details.invoice_number = << <<"A1">>, <<"A1">> >>

C8_UnknownTypeReturnsBag ==
  (pc = "done" /\ docType \notin DOMAIN document_extractors) =>
     /\ warned
     /\ ~helpersRun
     /\ result = entities
     /\ WithoutTimestamp(result) = WithoutTimestamp(ExtractEntitiesResult(text, ner, hashSeed, 0))

C8_Witness ==
  /\ pc = "done" /\ docType = "report" /\ warned
  /\ "extraction_metadata" \in DOMAIN result /\ result.emails # <<>>

\* C9: for the empty text and for a text of white space only extract_entities
\* returns the empty bag and the recognizer is not invoked.
C9_BlankTextSkipsRecognizer ==
  (EntitiesReturned /\ (IsEmptyText(text) \/ IsBlankText(text))) =>
     nlpCalls = 0 /\ DOMAIN entities = {}

C9_Witness ==
  /\ pc = "done" /\ text = << <<>>, <<>> >> /\ nlpCalls = 0 /\ DOMAIN entities = {}

\* the five keywords of C10, in the order the extractor tries them
C10_Keywords ==
  << <<"Total:">>, <<"Grand", "Total:">>, <<"Amount", "Due:">>,
     <<"Final", "Amount:">>, <<"Balance", "Due:">> >>

\* the positions of the words w at which the keyword stands, a word after it
KeywordAt(w, kw) ==
  { i \in 1..Len(w) : i + Len(kw) <= Len(w) /\ SubSeq(w, i, i + Len(kw) - 1) = kw }

\* a keyword followed by an amount other than $123.45
OtherAmountAt(w, kw, i) ==
  i \in KeywordAt(w, kw) /\ w[i + Len(kw)] \in {"$9.00", "555-123-4567"}

\* C10 as stated: a text that contains 'K: $123.45' for one of the five
\* keywords K has total_amount '123.45', whatever else it contains.
C10_LabelledTotalAlways ==
  (pc = "done" /\ extractor = "extract_invoice_data") =>
     \A k \in 1..Len(C10_Keywords) :
        (\E i \in KeywordAt(Words(text), C10_Keywords[k]) :
            Words(text)[i + Len(C10_Keywords[k])] = "$123.45")
        => result.total_amount = <<"123.45">>

\* C10 as amended: a text that contains 'K: $123.45', K at the start of a
\* word, has total_amount '123.45' when no keyword tried before K is followed
\* by another amount anywhere in the text ('Total:' also stands inside
\* 'Grand Total:') and no 'K:' before this one is followed by another amount.
C10_FirstLabelledTotal ==
  (pc = "done" /\ extractor = "extract_invoice_data") =>
     \A k \in 1..Len(C10_Keywords) :
        LET w == Words(text) kw == C10_Keywords[k]
        IN (\E i \in KeywordAt(w, kw) :
               /\ w[i + Len(kw)] = "$123.45"
               /\ \A j \in 1..(i - 1) : ~OtherAmountAt(w, kw, j)
               /\ \A h \in 1..(k - 1) : \A j \in 1..Len(w) : ~OtherAmountAt(w, C10_Keywords[h], j))
           => result.total_amount = <<"123.45">>

C10_Witness ==
  /\ pc = "done" /\ extractor = "extract_invoice_data"
  /\ text = << <<"Total:", "$123.45">>, <<"Total:", "$9.00">> >>
  /\ result.total_amount = <<"123.45">>

\* the lines and positions at which the text holds 'Vendor: Acme Corp'
C11_AcmeAt(t) ==
  { <<i, j>> \in (1..Len(t)) \X (1..4) :
      /\ j + 2 <= Len(t[i])
      /\ IsVendorLabel(t[i][j]) /\ t[i][j + 1] = "Acme" /\ t[i][j + 2] = "Corp" }

\* a 'Vendor:' label stands in the text before line i, position j
C11_LabelBefore(t, i, j) ==
  \/ \E k \in 1..(i - 1) : \E m \in 1..Len(t[k]) : IsVendorLabel(t[k][m])
  \/ \E m \in 1..(j - 1) : IsVendorLabel(t[i][m])

\* C11 as stated: a text that contains 'Vendor: Acme Corp' has vendor_name
\* 'Acme Corp', whatever follows the name on its line, whatever other
\* 'Vendor:' labels the text has and whatever ORG entities the bag holds.
C11_VendorAlways ==
  (pc = "done" /\ extractor = "extract_invoice_data" /\ C11_AcmeAt(text) # {}) =>
     <<"Acme", "Corp">> = result.vendor_name

\* C11 as amended: a text whose first 'Vendor:' label (in any letter case) is
\* followed by 'Acme Corp' and then by nothing but white space up to the end
\* of the line has vendor_name 'Acme Corp', whatever ORG entities the bag
\* holds and whatever stands on the other lines.
C11_FirstVendorLabel ==
  (pc = "done" /\ extractor = "extract_invoice_data") =>
     \A p \in C11_AcmeAt(text) :
        (/\ ~C11_LabelBefore(text, p[1], p[2])
         /\ \A k \in (p[2] + 3)..Len(text[p[1]]) : text[p[1]][k] = WS)
        => <<"Acme", "Corp">> = result.vendor_name

C11_Witness ==
  /\ pc = "done" /\ extractor = "extract_invoice_data"
  /\ text = << <<"Our", "Vendor:", "Acme", "Corp">>, <<"VENDOR:", "Globex">> >>
  /\ "ORG" \in DOMAIN entities /\ Len(entities.ORG) = 3
  /\ <<"Acme", "Corp">> = result.vendor_name

\* the line items the parser returned
LineItems == result.line_items

ParserReturned == pc = "done" /\ DOMAIN result = {"line_items"}

\* the lines of the text after its first header line
C12_RowsAfterHeader(t) ==
  LET headers == { i \in 1..Len(t) : IsHeader(t[i]) }
  IN IF headers = {} THEN <<>> ELSE SubSeq(t, Min(headers) + 1, Len(t))

\* the line has the strict shape: number, description, price, qty, total
C12_IsStrictRow(l) ==
  LET w == Strip(l) n == Len(w)
  IN /\ n >= 5 /\ IsDigits(w[1]) /\ IsDigits(w[n - 1])
     /\ AmountCapture(w[n - 2]) # NULL /\ AmountCapture(w[n]) # NULL

\* the fields of a strict row, read off the row
C12_RowItem(l) ==
  LET w == Strip(l) n == Len(w)
  IN [ item_number |-> <<w[1]>>,
       description |-> SubSeq(w, 2, n - 3),
       unit_price |-> <<AmountCapture(w[n - 2])>>,
       quantity |-> <<w[n - 1]>>,
       amount |-> <<AmountCapture(w[n])>> ]

\* the text is a header line followed by n >= 1 strict rows numbered 1..n
C12_IsStrictTable(t) ==
  LET rows == C12_RowsAfterHeader(t)
  IN /\ Len(rows) >= 1
     /\ \A i \in 1..Len(rows) :
          C12_IsStrictRow(rows[i]) /\ Strip(rows[i])[1] = ToString(i)

\* C12 as stated: for a header line followed by n strict rows numbered 1..n
\* the parser returns n items, in row order, each with the fields of its row.
C12_EveryStrictTable ==
  (ParserReturned /\ C12_IsStrictTable(text)) =>
     LineItems = [i \in 1..Len(C12_RowsAfterHeader(text)) |->
                    C12_RowItem(C12_RowsAfterHeader(text)[i])]

\* C12 as amended: for the first header line of the text followed by n strict
\* rows numbered 1..n, none of which contains a terminal keyword, the parser
\* returns n items, in row order, each with the fields of its row.
C12_StrictTableWithoutTerminal ==
  (/\ ParserReturned /\ C12_IsStrictTable(text)
   /\ \A i \in 1..Len(C12_RowsAfterHeader(text)) : ~IsTerminal(C12_RowsAfterHeader(text)[i])) =>
     LineItems = [i \in 1..Len(C12_RowsAfterHeader(text)) |->
                    C12_RowItem(C12_RowsAfterHeader(text)[i])]

C12_Witness ==
  /\ ParserReturned
  /\ text = << <<"Acme", "Corp">>,
               <<"Item", "Description", "Price", "Qty", "Total">>,
               <<"1", "Widget", "$10.00", "2", "$20.00">>,
               <<"2", "Gadget", "$5.00", "1", "$5.00">>,
               <<WS, "3", "Cable", "$3.00", "4", "$12.00", WS>> >>
  /\ LineItems =
       << [item_number |-> <<"1">>, description |-> <<"Widget">>, unit_price |-> <<"10.00">>,
           quantity |-> <<"2">>, amount |-> <<"20.00">>],
          [item_number |-> <<"2">>, description |-> <<"Gadget">>, unit_price |-> <<"5.00">>,
           quantity |-> <<"1">>, amount |-> <<"5.00">>],
          [item_number |-> <<"3">>, description |-> <<"Cable">>, unit_price |-> <<"3.00">>,
           quantity |-> <<"4">>, amount |-> <<"12.00">>] >>

\* C13: the parser returns a list and does not raise, for every text; when
\* no line has a header shape and no line has the bare-row shape the list is
\* empty.
C13_NoTableNoItems ==
  ParserReturned =>
     /\ ~Raised(result)
     /\ DOMAIN LineItems = 1..Len(LineItems)
     /\ ((\A i \in 1..Len(text) : ~IsHeader(text[i]) /\ ~IsBareRow(text[i]))
          => LineItems = <<>>)

C13_Witness ==
  /\ ParserReturned
  /\ text = << <<"Acme", "Corp">>, <<"Widget", "$10.00", "2", "$20.00">>,
               <<"Gadget", "$5.00", "$5.00">> >>
  /\ LineItems = <<>>

\* item is what the row loop makes of line l for some count of earlier items
C19_ParsedFrom(item, l, most) ==
  Strip(l) # <<>> /\ \E c \in 0..most : ParseLine(l, c) = <<item>>

\* the items from the k-th on come from lines i .. end - 1, each from a line
\* of its own, in the order of the lines
RECURSIVE C19_Embeds(_, _, _, _, _)
C19_Embeds(items, k, t, i, end) ==
  IF k > Len(items) THEN TRUE
  ELSE IF i >= end THEN FALSE
  ELSE IF C19_ParsedFrom(items[k], t[i], Len(t)) THEN C19_Embeds(items, k + 1, t, i + 1, end)
  ELSE C19_Embeds(items, k, t, i + 1, end)

\* C19: every returned item is parsed from a non-blank line in [start, end),
\* start and end as the parser locates them; each line gives at most one item,
\* the items stand in line order, and no line from end on gives an item.
C19_ItemsFromWindow ==
  ParserReturned =>
     IF TableStart(text) = 0 THEN LineItems = <<>>
     ELSE /\ C19_Embeds(LineItems, 1, text, TableStart(text),
                        TableEnd(text, TableStart(text)))
          /\ TableEnd(text, TableStart(text)) >= TableStart(text)
          /\ \A i \in TableStart(text)..Len(text) :
               IsTerminal(text[i]) => TableEnd(text, TableStart(text)) <= i

C19_Witness ==
  /\ ParserReturned
  /\ text = << <<"Item", "Description", "Price", "Qty", "Total">>,
               <<"1", "Widget", "$10.00", "2", "$20.00">>,
               <<"Thank", "you">>,
               <<"2", "Gadget", "$5.00", "1", "$5.00">> >>
  /\ Len(LineItems) = 1 /\ LineItems[1].item_number = <<"1">>

\* the lines of the table window that give an item, in line order
C20_ItemLines(t) ==
  IF TableStart(t) = 0 THEN <<>>
  ELSE SelectSeq(SubSeq(t, TableStart(t), TableEnd(t, TableStart(t)) - 1),
                 LAMBDA l : ParseLine(l, 0) # <<>>)

\* the line begins with a row number
C20_HasRowNumber(l) == IsDigits(Strip(l)[1])

\* C20: the item of a row without a leading row number has as item_number its
\* position among the returned items; so when no row of the table has a row
\* number the item_numbers are '1', '2', ..., 'n' in order.
C20_DefaultItemNumber ==
  ParserReturned =>
     /\ Len(C20_ItemLines(text)) = Len(LineItems)
     /\ \A k \in 1..Len(LineItems) :
          ~C20_HasRowNumber(C20_ItemLines(text)[k]) => LineItems[k].item_number = <<ToString(k)>>
     /\ ((\A k \in 1..Len(LineItems) : ~C20_HasRowNumber(C20_ItemLines(text)[k]))
          => \A k \in 1..Len(LineItems) : LineItems[k].item_number = <<ToString(k)>>)

C20_Witness ==
  /\ ParserReturned
  /\ text = << <<"Item", "Description", "Price", "Qty", "Total">>,
               <<"Widget", "$10.00", "2", "$20.00">>,
               <<"4", "Cable", "$3.00", "$12.00">>,
               <<"Gadget", "$5.00", "$5.00">> >>
  /\ [k \in 1..3 |-> LineItems[k].item_number] = << <<"1">>, <<"4">>, <<"3">> >>

\* the weight of an indicator, in tenths
C14_Weight(holds, tenths) == IF holds THEN tenths ELSE 0

\* the bag has the category and the category has a member
C14_Any(k) == k \in DOMAIN entities /\ entities[k] # <<>>

\* C14: confidence_score is the sum of the weights of the indicators that
\* hold (3 tenths for the word 'invoice', 2 for any ORG, 2 for any MONEY or
\* currency, 1 for any DATE or structured date, 1 for any email, 1 for a
\* total/amount/due keyword), capped at 1, so it lies in [0, 1]; this for
\* every text and bag, the empty bag and the error-only bag included.
C14_ConfidenceIsCappedSum ==
  (pc = "done" /\ extractor = "extract_invoice_data") =>
     LET sum == C14_Weight(\E i \in 1..Len(text) : \E j \in 1..Len(text[i]) :
                             text[i][j] = "Invoice", 3)
              + C14_Weight(C14_Any("ORG"), 2)
              + C14_Weight(C14_Any("MONEY") \/ C14_Any("currencies"), 2)
              + C14_Weight(C14_Any("DATE") \/ C14_Any("dates_structured"), 1)
              + C14_Weight(C14_Any("emails"), 1)
              + C14_Weight(\E i \in 1..Len(text) : \E j \in 1..Len(text[i]) :
                             text[i][j] \in {"Total:", "Amount", "Amount:", "Due:"}, 1)
     IN /\ result.confidence_score = (IF sum > 10 THEN 10 ELSE sum)
        /\ result.confidence_score \in 0..10

C14_Witness ==
  /\ pc = "done" /\ extractor = "extract_invoice_data"
  /\ text = << <<"Invoice", "A1", "a@b.com", "555-123-4567">>, <<"Total:", "$123.45">> >>
  /\ C14_Any("ORG") /\ C14_Any("DATE") /\ C14_Any("emails") /\ C14_Any("currencies")
  /\ result.confidence_score = 10

\* the strs of the inputs that consist of 1 to 5 digits
C15_ShortNumbers ==
  { <<"5">>, <<"7">>, <<"12">>, <<"555">>, <<"123">>, <<"456">>, <<"4567">>, <<"90210">> }

\* C15: the DATE category of the returned bag has no entry of 1 to 5 digits
\* and has every other distinct non-empty trimmed DATE span of the recognizer.
C15_DateCleanup ==
  (FullBag /\ RecognizerSucceeded) =>
     /\ \A i \in 1..Len(entities.DATE) : entities.DATE[i] \notin C15_ShortNumbers
     /\ Range(entities.DATE) =
          { Strip(ner.DATE[i]) : i \in 1..Len(ner.DATE) } \ (C15_ShortNumbers \cup {<<>>})

C15_Witness ==
  /\ FullBag /\ RecognizerSucceeded
  /\ Len(ner.DATE) = 6
  /\ Range(entities.DATE) = { <<"May", "5">>, <<"123456">> }

\* the number of matches held under invoice_details
C16_DetailMatches(d) ==
  SumSeq([i \in 1..3 |->
            LET p == <<"invoice_number", "po_number", "order_number">>[i]
            IN IF p \in DOMAIN d THEN Len(d[p]) ELSE 0])

\* C16: in a successfully built bag total_entities_found is the sum of the
\* sizes of the list-valued categories plus the number of matches held under
\* invoice_details, and text_length is the length of the text.
C16_MetadataCountsMatches ==
  FullBag =>
     /\ entities.extraction_metadata.total_entities_found =
          SumSeq([i \in 1..Len(ListKeys) |-> Len(entities[ListKeys[i]])])
          + C16_DetailMatches(entities.invoice_details)
     /\ entities.extraction_metadata.text_length = TextLen(text)

\* the value of a MONEY or currency entity as a whole, in hundredths
C18_Value(a) ==
  CASE a \in { <<"$123.45">>, <<"123.45">> } -> 12345
    [] a \in { <<"$9.00">>, <<"9.00">> } -> 900
    [] a = <<"555">> -> 55500
    [] a = <<"123">> -> 12300
    [] a = <<"4567">> -> 456700
    [] OTHER -> 0

\* the entity stands in the text within the window behind a total keyword
C18_Near(t, a) ==
  \E e \in KeywordEnds(t) : \E i \in 1..Len(Words(t)) :
     /\ Words(t)[i] \in { a[1], "$" \o a[1] }
     /\ WordOffsets(t)[i] >= e /\ WordOffsets(t)[i] - e <= ProximityWindow

\* C18: total_amount is the result of the first strategy that succeeds: the
\* labelled patterns in keyword order; then the largest MONEY/currency value
\* of the bag within the window of a total keyword; then the largest
\* MONEY/currency value of the bag; null only with no label and no value.
C18_TotalAmountTiers ==
  (pc = "done" /\ extractor = "extract_invoice_data") =>
     LET w == Words(text)
         labels == { k \in 1..Len(C10_Keywords) :
                       \E i \in KeywordAt(w, C10_Keywords[k]) :
                          NumCapture(w[i + Len(C10_Keywords[k])]) # NULL }
         amounts == Get(entities, "MONEY", <<>>) \o Get(entities, "currencies", <<>>)
         near == SelectSeq(amounts, LAMBDA a : C18_Near(text, a))
         largest(xs) == Max({ C18_Value(xs[i]) : i \in 1..Len(xs) })
     IN IF labels # {}
        THEN LET kw == C10_Keywords[Min(labels)]
                 at == Min({ i \in KeywordAt(w, kw) : NumCapture(w[i + Len(kw)]) # NULL })
             IN result.total_amount = NumCapture(w[at + Len(kw)])
        ELSE IF near # <<>>
             THEN result.total_amount # NULL /\ C18_Value(result.total_amount) = largest(near)
        ELSE IF amounts # <<>>
             THEN result.total_amount # NULL /\ C18_Value(result.total_amount) = largest(amounts)
        ELSE result.total_amount = NULL

C21_Rows(t) ==
  IF TableStart(t) = 0 THEN <<>>
  ELSE LET window == SubSeq(t, TableStart(t), TableEnd(t, TableStart(t)) - 1)
           rows == SelectSeq(window, LAMBDA l : ParseLine(l, 0) # <<>>)
       IN [k \in 1..Len(rows) |-> Strip(rows[k])]

\* the positions of the currency amounts of a row, in order
C21_Dollars(w) ==
  SelectSeq([k \in 1..Len(w) |-> k], LAMBDA k : DollarAmount(w[k]) # NULL)

\* C21: a row parsed by the loose heuristic has as quantity the integer token
\* that stands between its first and its second currency amount, '1' when
\* there is none; as unit_price its first and as amount its last currency
\* amount, whether it has two, three or more currency amounts.
C21_LooseQuantity ==
  ParserReturned =>
     /\ Len(C21_Rows(text)) = Len(LineItems)
     /\ \A k \in 1..Len(LineItems) :
          LET w == C21_Rows(text)[k]
              d == C21_Dollars(w)
              between == { j \in (d[1] + 1)..(d[2] - 1) : IsDigits(w[j]) }
          IN StrictItem(w) = <<>> =>
               /\ LineItems[k].quantity =
                    IF between # {} THEN <<w[Min(between)]>> ELSE <<"1">>
               /\ LineItems[k].unit_price = <<DollarAmount(w[d[1]])>>
               /\ LineItems[k].amount = <<DollarAmount(w[d[Len(d)]])>>

\* the match of pattern p (1: number to suffix, 2: suffix and what follows)
\* in a line, stripped, as a list of none or one
C22_MatchIn(l, p) ==
  LET m == IF p = 1 THEN AddressSearch(l) ELSE AddressTrailSearch(l)
  IN IF m = <<>> THEN <<>> ELSE << Strip(m[1]) >>

\* the (line, pattern) pairs of the leading 15 lines whose match is accepted
C22_Accepted(t) ==
  { c \in (1..Min({Len(t), AddressScanLines})) \X {1, 2} :
       /\ C22_MatchIn(t[c[1]], c[2]) # <<>>
       /\ ~StartsWithLongNumber(C22_MatchIn(t[c[1]], c[2])[1]) }

\* the first of them: the earliest line, and in it the first pattern
C22_First(S) ==
  CHOOSE c \in S : \A d \in S : c[1] < d[1] \/ (c[1] = d[1] /\ c[2] <= d[2])

\* C22: a vendor_address that is not null does not begin with four or more
\* digits; it is the first accepted match of the leading 15 lines when they
\* have one, otherwise the first entry of the addresses bucket that does not
\* begin with such a number, otherwise null; a line behind the 15th gives no
\* match to the first tier.
C22_VendorAddress ==
  (pc = "done" /\ extractor = "extract_invoice_data") =>
     LET acc == C22_Accepted(text)
         bucket == Get(entities, "addresses", <<>>)
         passing == { k \in 1..Len(bucket) : ~StartsWithLongNumber(bucket[k]) }
     IN /\ result.vendor_address # NULL => LeadingDigits(result.vendor_address) < 4
        /\ IF acc # {}
           THEN LET c == C22_First(acc)
                IN C22_MatchIn(text[c[1]], c[2])[1] = result.vendor_address
           ELSE IF passing # {} THEN bucket[Min(passing)] = result.vendor_address
           ELSE result.vendor_address = NULL

\* the 16th line has a match the first tier would accept, the 17th the one
\* the bucket holds
C22_Witness ==
  /\ pc = "done" /\ extractor = "extract_invoice_data"
  /\ Len(text) = AddressScanLines + 2
  /\ text[AddressScanLines + 1] = <<"Main", "Street", "Springfield", WS>>
  /\ text[AddressScanLines + 2] = <<"12", "Main", "Street">>
  /\ Get(entities, "addresses", <<>>) = << <<"12", "Main", "Street">> >>
  /\ <<"12", "Main", "Street">> = result.vendor_address

\* the ORG entity has a business-suffix token as one of its words
C23_HasSuffixToken(s) ==
  \E i \in 1..Len(s) : s[i] \in {"Brand", "Company", "Inc", "Corp", "Ltd", "LLC"}

\* C23: vendor_name is the result of the first tier that succeeds: (a) the
\* text after a 'Vendor:' label; (b) an ORG entity with a business-suffix
\* token; (c) the first ORG entity; (d) the first of the leading 5 lines of
\* the text with a corporate keyword, consulted only when the bag has no ORG
\* entity, so that a line beyond the fifth is never the vendor name; null
\* when the four tiers fail.
C23_VendorNameTiers ==
  (pc = "done" /\ extractor = "extract_invoice_data") =>
     LET orgs == Get(entities, "ORG", <<>>)
         tokened == { k \in 1..Len(orgs) : C23_HasSuffixToken(orgs[k]) }
         corporate == { i \in 1..Min({Len(text), NameScanLines}) : HasCorporateKeyword(text[i]) }
     IN IF VendorLabelled(text) # NULL THEN VendorLabelled(text) = result.vendor_name
        ELSE IF tokened # {} THEN Strip(orgs[Min(tokened)]) = result.vendor_name
        ELSE IF orgs # <<>> THEN orgs[1] = result.vendor_name
        ELSE IF corporate # {} THEN Strip(text[Min(corporate)]) = result.vendor_name
        ELSE result.vendor_name = NULL

\* the recognizer succeeds and returns no entities
C24_NoEntities ==
  [fails |-> FALSE, PERSON |-> <<>>, ORG |-> <<>>, MONEY |-> <<>>, DATE |-> <<>>,
   GPE |-> <<>>, CARDINAL |-> <<>>]

\* the fields of the invoice record that text patterns alone can give
C24_TextFields ==
  { "invoice_number", "po_number", "order_number", "subtotal", "tax_amount", "tax_rate",
    "invoice_date", "due_date", "payment_terms", "discount_terms", "line_items",
    "currency_detected", "vendor_email", "vendor_phone" }

\* both null, or both not null and equal
C24_Same(a, b) == (a = NULL /\ b = NULL) \/ (a # NULL /\ b # NULL /\ a = b)

\* C24: the invoice record of a call whose recognizer raised has, in every
\* field that text patterns alone can give (the contact fields vendor_email
\* and vendor_phone among them), the value the record has for the same text
\* when the recognizer succeeds and returns no entities.
C24_RegexOnlyAfterFailure ==
  (pc = "done" /\ extractor = "extract_invoice_data" /\ ner.fails /\ ~SkipsRecognizer(text)) =>
     \A f \in C24_TextFields :
        C24_Same(result[f], CallResult(text, "invoice", C24_NoEntities, hashSeed, clock)[f])

====
